---- MODULE Spec2Model ----
(***************************************************************************)
(* Model of cursor-api.                                                    *)
(*                                                                         *)
(* Spec: the streaming assembler (packages/cursor-api/src/core/            *)
(* streaming.ts): processChunk, cleanResponseText and                      *)
(* CursorStream.toStream, run on the WHATWG ReadableStream that toStream() *)
(* constructs, reading frames from the transport reader of response.body.  *)
(*                                                                         *)
(* CreateSpec: ChatCompletions.create (src/index.ts): validateParams, the  *)
(* call of the transport, and for a non-streaming request the read loop,   *)
(* processResponseChunks and cleanResponseText of createCompletion.        *)
(*                                                                         *)
(* CallSpec: parseHexResponse (lib/protobuf.ts) and processChunk called on *)
(* their own with arguments from bounded sets.                             *)
(*                                                                         *)
(* Texts and frames are sequences of character codes / bytes.  Time is in  *)
(* milliseconds.                                                           *)
(***************************************************************************)
EXTENDS Integers, Sequences, FiniteSets, TLC

----------------------------------------------------------------------------
(* Bounds of the model *)

\* number of frames the transport delivers in one run
MaxFrames == 3
\* granularity of the clock
TickMs == 5000
\* number of clock ticks in one run
MaxTicks == 2
\* number of reads the consumer makes after the stream closed or errored
MaxPostReads == 2

----------------------------------------------------------------------------
(* Strings *)

SetMin(S) == CHOOSE x \in S : \A y \in S : x <= y
SetMax(S) == CHOOSE x \in S : \A y \in S : x >= y

\* the white space of String.prototype.trim and of \s, for ASCII texts
IsWS(c) == c \in {9, 10, 11, 12, 13, 32}

IsLetter(c) == (c >= 65 /\ c <= 90) \/ (c >= 97 /\ c <= 122)

Trim(s) ==
  LET idx == {i \in 1..Len(s) : ~IsWS(s[i])}
  IN  IF idx = {} THEN <<>> ELSE SubSeq(s, SetMin(idx), SetMax(idx))

\* s.slice(from - 1): the suffix starting at the 1-based index from
Slice(s, from) == IF from > Len(s) THEN <<>> ELSE SubSeq(s, from, Len(s))

OccursAt(p, s, i) ==
  i >= 1 /\ i + Len(p) - 1 <= Len(s) /\ SubSeq(s, i, i + Len(p) - 1) = p

\* first index >= from where p occurs in s, 0 when there is none
IndexFrom(p, s, from) ==
  LET idx == {i \in from..Len(s) : OccursAt(p, s, i)}
  IN  IF idx = {} THEN 0 ELSE SetMin(idx)

\* last index where p occurs in s, 0 when there is none
LastIndexOf(p, s) ==
  LET idx == {i \in 1..Len(s) : OccursAt(p, s, i)}
  IN  IF idx = {} THEN 0 ELSE SetMax(idx)

Includes(s, p) == IndexFrom(p, s, 1) # 0

StartsWith(s, p) == OccursAt(p, s, 1)

BEGIN_SYSTEM == <<60,124,66,69,71,73,78,95,83,89,83,84,69,77,124,62>>
END_SYSTEM == <<60,124,69,78,68,95,83,89,83,84,69,77,124,62>>
BEGIN_USER == <<60,124,66,69,71,73,78,95,85,83,69,82,124,62>>
END_USER == <<60,124,69,78,68,95,85,83,69,82,124,62>>
\* "{}"
Braces == <<123, 125>>
\* '{"error"'
ErrorKey == <<123,34,101,114,114,111,114,34>>
\* "API Error: "
ApiErrorPrefix == <<65,80,73,32,69,114,114,111,114,58,32>>
\* "Unknown error"
UnknownError == <<85,110,107,110,111,119,110,32,101,114,114,111,114>>

\* Buffer.toString('utf-8') on the bytes the model uses: ASCII is kept, a
\* byte that is not ASCII decodes to U+FFFD
Utf8Decode(bytes) ==
  [i \in 1..Len(bytes) |-> IF bytes[i] < 128 THEN bytes[i] ELSE 65533]

----------------------------------------------------------------------------
(* cleanResponseText *)

\* systemPromptRegex.test(text):
\* /<\|BEGIN_SYSTEM\|>.*?<\|END_SYSTEM\|>.*?<\|BEGIN_USER\|>.*?<\|END_USER\|>/s
HasSystemPrompt(text) ==
  LET a == IndexFrom(BEGIN_SYSTEM, text, 1)
      b == IF a = 0 THEN 0 ELSE IndexFrom(END_SYSTEM, text, a + Len(BEGIN_SYSTEM))
      c == IF b = 0 THEN 0 ELSE IndexFrom(BEGIN_USER, text, b + Len(END_SYSTEM))
      d == IF c = 0 THEN 0 ELSE IndexFrom(END_USER, text, c + Len(BEGIN_USER))
  IN  d # 0

\* text.replace(/^.*<\|END_USER\|>/s, ''): the greedy .* ends at the last marker
StripToEndUser(text) ==
  LET k == LastIndexOf(END_USER, text)
  IN  IF k = 0 THEN text ELSE Slice(text, k + Len(END_USER))

\* the replacement with /^\n/: the newline only
StripNewlineLetter_NewlineOnly(text) ==
  IF Len(text) >= 1 /\ text[1] = 10 THEN Slice(text, 2) ELSE text

\* text.replace(/^\n[a-zA-Z]?/, '')
StripNewlineLetter(text) ==
  IF Len(text) >= 1 /\ text[1] = 10
  THEN IF Len(text) >= 2 /\ IsLetter(text[2]) THEN Slice(text, 3) ELSE Slice(text, 2)
  ELSE text

\* text.replace(/\s*\{\}\s*$/, ''): the leftmost match is the first "{}" that
\* is followed by white space only, with the white space before it
StripTrailingBraces(text) ==
  LET idx == {i \in 1..Len(text) :
                /\ OccursAt(Braces, text, i)
                /\ \A j \in (i + 2)..Len(text) : IsWS(text[j])}
  IN  IF idx = {} THEN text
      ELSE LET k == SetMin(idx)
               ws == {j \in 0..(k - 1) : \A m \in (j + 1)..(k - 1) : IsWS(text[m])}
           IN  SubSeq(text, 1, SetMin(ws))

cleanResponseText(text) ==
  IF Trim(text) = Braces \/ Trim(text) = <<>> THEN <<>>
  ELSE IF HasSystemPrompt(text) THEN <<>>
  ELSE Trim(StripTrailingBraces(Trim(StripNewlineLetter(StripToEndUser(text)))))

----------------------------------------------------------------------------
(* JSON.parse and JSON.stringify, for the texts processChunk hands to them *)

IsJsonWS(c) == c \in {9, 10, 13, 32}
IsDigit(c) == c >= 48 /\ c <= 57

\* first index >= i of s that is not JSON white space (Len(s) + 1 at the end)
SkipWS(s, i) ==
  SetMin({j \in i..(Len(s) + 1) : j = Len(s) + 1 \/ ~IsJsonWS(s[j])})

RECURSIVE JStringEnd(_, _)
\* i is the index after the opening quote; the index after the closing quote,
\* 0 when the string is not terminated or holds a control character
JStringEnd(s, i) ==
  IF i > Len(s) THEN 0
  ELSE IF s[i] = 34 THEN i + 1
  ELSE IF s[i] < 32 THEN 0
  ELSE IF s[i] = 92 THEN (IF i + 1 > Len(s) THEN 0 ELSE JStringEnd(s, i + 2))
  ELSE JStringEnd(s, i + 1)

\* index after the number starting at i, 0 when there is none
JNumberEnd(s, i) ==
  LET d == IF i <= Len(s) /\ s[i] = 45 THEN i + 1 ELSE i
      run == {j \in d..(Len(s) + 1) : \A m \in d..(j - 1) : IsDigit(s[m])}
      e == SetMax(run)
  IN  IF e = d THEN 0
      ELSE IF s[d] = 48 /\ e > d + 1 THEN 0
      ELSE e

\* "true", "false", "null"
JLiterals == {<<116,114,117,101>>, <<102,97,108,115,101>>, <<110,117,108,108>>}

RECURSIVE JValueEnd(_, _), JMembers(_, _), JElementsEnd(_, _)

\* the array that starts at i: k is the index of its first token
JArrayEnd(s, i, k) ==
  IF k <= Len(s) /\ s[k] = 93 THEN k + 1 ELSE JElementsEnd(s, i + 1)

\* index after the JSON value starting at i, 0 when there is none
JValueEnd(s, i) ==
  IF i > Len(s) THEN 0
  ELSE IF s[i] = 34 THEN JStringEnd(s, i + 1)
  ELSE IF s[i] = 123 THEN JMembers(s, i + 1).next
  ELSE IF s[i] = 91 THEN JArrayEnd(s, i, SkipWS(s, i + 1))
  ELSE IF \E l \in JLiterals : OccursAt(l, s, i)
    THEN i + Len(CHOOSE l \in JLiterals : OccursAt(l, s, i))
  ELSE JNumberEnd(s, i)

\* after an element of an array, at the index n of the next token
JAfterElement(s, n) ==
  IF n > Len(s) THEN 0
  ELSE IF s[n] = 93 THEN n + 1
  ELSE IF s[n] = 44 THEN JElementsEnd(s, n + 1)
  ELSE 0

\* e is the index after an element of an array
JElementRead(s, e) == IF e = 0 THEN 0 ELSE JAfterElement(s, SkipWS(s, e))

\* the elements of an array after "[" or ","
JElementsEnd(s, i) == JElementRead(s, JValueEnd(s, SkipWS(s, i)))

JFail == [next |-> 0, mem |-> <<>>]

\* a member followed by the rest of the members
JCons(m, r) == IF r.next = 0 THEN r ELSE [next |-> r.next, mem |-> <<m>> \o r.mem]

\* after a member with the key s[k+1..ke-2] and the value s[v..ve-1], at the
\* index n of the next token: "}" ends the object, "," continues it
JAfterValue(s, k, ke, v, ve, n) ==
  IF n > Len(s) THEN JFail
  ELSE IF s[n] = 125
    THEN [next |-> n + 1,
          mem |-> <<[key |-> SubSeq(s, k + 1, ke - 2), vs |-> v, ve |-> ve]>>]
  ELSE IF s[n] = 44
    THEN JCons([key |-> SubSeq(s, k + 1, ke - 2), vs |-> v, ve |-> ve],
               JMembers(s, n + 1))
  ELSE JFail

\* ve is the index after the value that starts at v
JValueRead(s, k, ke, v, ve) ==
  IF ve = 0 THEN JFail ELSE JAfterValue(s, k, ke, v, ve, SkipWS(s, ve))

\* c is the index of the token after the key, which must be ":"
JAfterKey(s, k, ke, c) ==
  IF c > Len(s) \/ s[c] # 58 THEN JFail
  ELSE JValueRead(s, k, ke, SkipWS(s, c + 1), JValueEnd(s, SkipWS(s, c + 1)))

\* ke is the index after the key, a string that starts at k
JKeyRead(s, k, ke) ==
  IF ke = 0 THEN JFail ELSE JAfterKey(s, k, ke, SkipWS(s, ke))

\* k is the index of the first token of the members; first says that "{"
\* comes right before them
JMembersAt(s, k, first) ==
  IF k > Len(s) THEN JFail
  ELSE IF s[k] = 125 /\ first THEN [next |-> k + 1, mem |-> <<>>]
  ELSE IF s[k] # 34 THEN JFail
  ELSE JKeyRead(s, k, JStringEnd(s, k + 1))

\* the members of an object after "{" or "," at the index i - 1: next is the
\* index after the closing brace (0 when the object is malformed), mem the
\* members in order
JMembers(s, i) == JMembersAt(s, SkipWS(s, i), s[i - 1] = 123)

\* the result of JSON.parse for the members r read after the first "{"
JParsed(s, r) ==
  IF r.next # 0 /\ SkipWS(s, r.next) = Len(s) + 1
  THEN [ok |-> TRUE, mem |-> r.mem]
  ELSE [ok |-> FALSE, mem |-> <<>>]

\* JSON.parse(s) of a text that starts with "{": ok is FALSE when it throws
JsonParseObject(s) ==
  IF Len(s) >= 1 /\ s[1] = 123 THEN JParsed(s, JMembers(s, 2))
  ELSE [ok |-> FALSE, mem |-> <<>>]

\* "error"
ErrorName == <<101,114,114,111,114>>

\* the source text of parsed.error (the last member named error), <<>> when
\* the object has no such member
ErrorMember(s, mem) ==
  LET idx == {i \in 1..Len(mem) : mem[i].key = ErrorName}
  IN  IF idx = {} THEN <<>>
      ELSE SubSeq(s, mem[SetMax(idx)].vs, mem[SetMax(idx)].ve - 1)

\* the truthiness of a JSON value given by its source text: null, false, 0,
\* "" and a missing member are falsy
Truthy(v) ==
  /\ v # <<>>
  /\ v # <<110,117,108,108>>
  /\ v # <<102,97,108,115,101>>
  /\ v # <<34, 34>>
  /\ ~(v[1] \in {45, 48} /\ \A i \in 1..Len(v) : v[i] \in {45, 48})

RECURSIVE StripJsonWS(_, _, _)
StripJsonWS(v, i, inString) ==
  IF i > Len(v) THEN <<>>
  ELSE IF inString /\ v[i] = 92 /\ i < Len(v)
    THEN <<v[i], v[i + 1]>> \o StripJsonWS(v, i + 2, TRUE)
  ELSE IF v[i] = 34 THEN <<v[i]>> \o StripJsonWS(v, i + 1, ~inString)
  ELSE IF ~inString /\ IsJsonWS(v[i]) THEN StripJsonWS(v, i + 1, FALSE)
  ELSE <<v[i]>> \o StripJsonWS(v, i + 1, inString)

\* JSON.stringify of a parsed value, from the source text of the value: its
\* insignificant white space is dropped
JsonStringify(v) == StripJsonWS(v, 1, FALSE)

\* text.match(/\{[^]*?\}/): from the first "{" to the first "}" after it
LazyBraceMatch(text) ==
  LET a == IndexFrom(<<123>>, text, 1)
      b == IF a = 0 THEN 0 ELSE IndexFrom(<<125>>, text, a + 1)
  IN  IF b = 0 THEN <<>> ELSE SubSeq(text, a, b)

----------------------------------------------------------------------------
(* gunzip *)

\* A gzip member is modelled as the magic 1f 8b, the method byte 08, a byte
\* with the number of data bytes, the data and a one-byte length trailer: the
\* model keeps what gunzip checks (magic, method, a complete member that marks
\* its own end, a trailer that matches) and not the deflate coding.
GzipEncode(data) == <<31, 139, 8, Len(data)>> \o data \o <<Len(data) % 256>>

GunzipError == [ok |-> FALSE, text |-> <<>>]

RECURSIVE GunzipFrom(_, _, _)
\* gunzip from the 1-based index pos on, out being the output of the members
\* before: a member that is cut short or whose header or trailer is wrong is
\* an error; after a complete member, bytes that start with the magic are
\* the next member and any other bytes are ignored
GunzipFrom(data, pos, out) ==
  IF ~(/\ pos + 3 <= Len(data)
       /\ data[pos] = 31 /\ data[pos + 1] = 139 /\ data[pos + 2] = 8)
  THEN GunzipError
  ELSE LET n == data[pos + 3]
           next == pos + 5 + n
       IN  IF next - 1 > Len(data) THEN GunzipError
           ELSE IF data[next - 1] # n % 256 THEN GunzipError
           ELSE IF /\ next + 1 <= Len(data)
                   /\ data[next] = 31 /\ data[next + 1] = 139
             THEN GunzipFrom(data, next, out \o SubSeq(data, pos + 4, next - 2))
           ELSE [ok |-> TRUE,
                 text |-> Utf8Decode(out \o SubSeq(data, pos + 4, next - 2))]

\* zlib.gunzip and zlib.gunzipSync followed by toString('utf-8'): ok is FALSE
\* when gunzip reports an error
Gunzip(data) == GunzipFrom(data, 1, <<>>)

\* decompressGzipData
decompressGzipData(data) == Gunzip(data)

----------------------------------------------------------------------------
(* protobufjs Reader, decodeResMessage, parseHexResponse *)

\* buf[pos] of a reader at the 0-based position pos; -1 stands for undefined
ByteAt(buf, pos) == IF pos < Len(buf) THEN buf[pos + 1] ELSE -1

Pow2(n) == IF n = 0 THEN 1 ELSE IF n = 7 THEN 128 ELSE IF n = 14 THEN 16384
           ELSE IF n = 21 THEN 2097152 ELSE 268435456

RECURSIVE ReadVarint(_, _, _, _, _)
\* Reader.uint32 from byte k (0..4) of the varint on: a byte that is missing
\* contributes 0 and does not end the varint; after five bytes without an end
\* the reader skips five more and throws when that passes the end.  The 32-bit
\* value is kept as its low 28 bits (value) and its high 4 bits (high).
ReadVarint(buf, pos, k, lo, hi) ==
  IF k = 5
  THEN IF pos + 5 > Len(buf)
       THEN [ok |-> FALSE, value |-> 0, high |-> 0, pos |-> Len(buf)]
       ELSE [ok |-> TRUE, value |-> lo, high |-> hi, pos |-> pos + 5]
  ELSE
    LET b == ByteAt(buf, pos)
        lo2 == IF b = -1 \/ k = 4 THEN lo ELSE lo + (b % 128) * Pow2(7 * k)
        hi2 == IF b # -1 /\ k = 4 THEN b % 16 ELSE hi
    IN  IF b # -1 /\ b < 128
        THEN [ok |-> TRUE, value |-> lo2, high |-> hi2, pos |-> pos + 1]
        ELSE ReadVarint(buf, pos + 1, k + 1, lo2, hi2)

Uint32(buf, pos) == ReadVarint(buf, pos, 0, 0, 0)

\* Reader.string: a length, then that many bytes; throws past the end
ReadString(buf, pos) ==
  LET l == Uint32(buf, pos)
  IN  IF ~l.ok \/ l.high > 0 \/ l.pos + l.value > Len(buf)
      THEN [ok |-> FALSE, text |-> <<>>, pos |-> pos]
      ELSE [ok |-> TRUE, pos |-> l.pos + l.value,
            text |-> Utf8Decode(SubSeq(buf, l.pos + 1, l.pos + l.value))]

\* Reader.skip(length)
SkipBytes(buf, pos, length) ==
  IF pos + length > Len(buf) THEN [ok |-> FALSE, pos |-> pos]
  ELSE [ok |-> TRUE, pos |-> pos + length]

RECURSIVE SkipVarint(_, _)
\* Reader.skip(): over one varint
SkipVarint(buf, pos) ==
  IF pos >= Len(buf) THEN [ok |-> FALSE, pos |-> pos]
  ELSE IF buf[pos + 1] >= 128 THEN SkipVarint(buf, pos + 1)
  ELSE [ok |-> TRUE, pos |-> pos + 1]

RECURSIVE SkipType(_, _, _)
\* Reader.skipType(wireType)
SkipType(buf, pos, wireType) ==
  CASE wireType = 0 -> SkipVarint(buf, pos)
    [] wireType = 1 -> SkipBytes(buf, pos, 8)
    [] wireType = 2 ->
         LET l == Uint32(buf, pos)
         IN  IF l.ok /\ l.high = 0 THEN SkipBytes(buf, l.pos, l.value)
             ELSE [ok |-> FALSE, pos |-> pos]
    [] wireType = 3 ->
         LET t == Uint32(buf, pos)
         IN  IF ~t.ok THEN [ok |-> FALSE, pos |-> pos]
             ELSE IF t.value % 8 = 4 THEN [ok |-> TRUE, pos |-> t.pos]
             ELSE LET r == SkipType(buf, t.pos, t.value % 8)
                  IN  IF r.ok THEN SkipType(buf, r.pos, 3) ELSE r
    [] wireType = 5 -> SkipBytes(buf, pos, 4)
    [] OTHER -> [ok |-> FALSE, pos |-> pos]

RECURSIVE DecodeLoop(_, _, _)
DecodeLoop(buf, pos, msg) ==
  IF pos >= Len(buf) THEN [ok |-> TRUE, msg |-> msg]
  ELSE
    LET tag == Uint32(buf, pos)
    IN  IF ~tag.ok THEN [ok |-> FALSE, msg |-> <<>>]
        ELSE IF tag.high = 0 /\ tag.value \div 8 = 1
        THEN LET r == ReadString(buf, tag.pos)
             IN  IF r.ok THEN DecodeLoop(buf, r.pos, r.text) ELSE [ok |-> FALSE, msg |-> <<>>]
        ELSE LET r == SkipType(buf, tag.pos, tag.value % 8)
             IN  IF r.ok THEN DecodeLoop(buf, r.pos, msg) ELSE [ok |-> FALSE, msg |-> <<>>]

\* decodeResMessage: ok is FALSE when the reader throws; msg is <<>> when the
\* message has no field 1
decodeResMessage(buffer) == DecodeLoop(buffer, 0, <<>>)

\* Buffer.toString('hex'): two hexadecimal digits (0..15) for every byte
ToHex(bytes) ==
  [i \in 1..(2 * Len(bytes)) |->
     IF i % 2 = 1 THEN bytes[(i + 1) \div 2] \div 16 ELSE bytes[i \div 2] % 16]

\* Buffer.from(hex, 'hex') of a string of hexadecimal digits
FromHex(hex) ==
  [i \in 1..(Len(hex) \div 2) |-> hex[2 * i - 1] * 16 + hex[2 * i]]

RECURSIVE ParseInt16(_)
\* parseInt(digits, 16) of a string of hexadecimal digits; a value of 2^20 or
\* more, which is beyond the length of every text of the model, is kept as 2^20
ParseInt16(digits) ==
  IF digits = <<>> THEN 0
  ELSE LET v == ParseInt16(SubSeq(digits, 1, Len(digits) - 1)) * 16 + digits[Len(digits)]
       IN  IF v > 1048576 THEN 1048576 ELSE v

\* the same test, asking for a whole length prefix after the message
ExceedsRemaining_WantsPrefix(hex, start, dataLength) ==
  start + dataLength * 2 + 10 > Len(hex)

\* offset + dataLength * 2 > hex.length, offset being start: the declared
\* length exceeds what remains
ExceedsRemaining(hex, start, dataLength) == start + dataLength * 2 > Len(hex)

RECURSIVE ParseHexLoop(_, _, _)
\* the loop that ends at the first message whose decoding fails
AfterDecode_StopsOnError(hex, next, results, message) ==
  IF ~message.ok THEN results
  ELSE ParseHexLoop(hex, next,
         IF message.msg # <<>> THEN Append(results, message.msg) ELSE results)

\* the try block for the result of decodeResMessage, and the rest of the
\* loop from the offset next on: a message that fails to decode and a message
\* without msg add nothing
AfterDecode(hex, next, results, message) ==
  ParseHexLoop(hex, next,
    IF message.ok /\ message.msg # <<>>
    THEN Append(results, message.msg) ELSE results)

\* the message that starts at the 0-based offset start
DecodeAt(hex, start, dataLength) ==
  decodeResMessage(FromHex(SubSeq(hex, start + 1, start + dataLength * 2)))

\* the loop of parseHexResponse after the length prefix that ends at start
AfterPrefix(hex, start, results, dataLength) ==
  IF ExceedsRemaining(hex, start, dataLength) THEN results
  ELSE AfterDecode(hex, start + dataLength * 2, results,
                   DecodeAt(hex, start, dataLength))

\* the loop of parseHexResponse from the 0-based offset on
ParseHexLoop(hex, offset, results) ==
  IF ~(offset < Len(hex)) \/ offset + 10 > Len(hex) THEN results
  ELSE AfterPrefix(hex, offset + 10, results,
                   ParseInt16(SubSeq(hex, offset + 1, offset + 10)))

\* parseHexResponse on a string of hexadecimal digits: the msg strings of the
\* length-prefixed messages, in order
parseHexResponse(hex) == ParseHexLoop(hex, 0, <<>>)

----------------------------------------------------------------------------
(* One iteration of the loop of parseHexResponse, for any string: a
   character is a hexadecimal digit (0..15), the minus sign or a letter that
   is no digit *)

IsHexDigit(c) == c \in 0..15
\* the character '-'; 17 stands for the letter 'z'
IsMinus(c) == c = 16

\* String.prototype.slice(from, to): a negative index counts from the end,
\* both are clamped to the string, and the result is empty when from is not
\* before to
JsSlice(s, from, to) ==
  LET clamp(i) == IF i < 0 THEN (IF Len(s) + i < 0 THEN 0 ELSE Len(s) + i)
                  ELSE IF i > Len(s) THEN Len(s) ELSE i
  IN  IF clamp(from) >= clamp(to) THEN <<>>
      ELSE SubSeq(s, clamp(from) + 1, clamp(to))

\* the longest prefix of s made of hexadecimal digits
LeadingDigits(s) ==
  SubSeq(s, 1, SetMax({k \in 0..Len(s) : \A i \in 1..k : IsHexDigit(s[i])}))

\* parseInt(s, 16): an optional sign, then the longest run of digits; NaN
\* when there is no digit
ParseIntAny(s) ==
  LET negative == s # <<>> /\ IsMinus(s[1])
      digits == LeadingDigits(IF negative THEN Tail(s) ELSE s)
  IN  IF digits = <<>> THEN [nan |-> TRUE, value |-> 0]
      ELSE [nan |-> FALSE,
            value |-> IF negative THEN 0 - ParseInt16(digits)
                      ELSE ParseInt16(digits)]

\* Buffer.from(s, 'hex'): the bytes of the pairs of digits up to the first
\* pair that is none
FromHexAny(s) ==
  FromHex(SubSeq(s, 1,
    2 * SetMax({k \in 0..(Len(s) \div 2) : \A i \in 1..(2 * k) : IsHexDigit(s[i])})))

\* the results after the try block for the decoded message
Pushed(results, message) ==
  IF message.ok /\ message.msg # <<>> THEN Append(results, message.msg)
  ELSE results

\* one iteration of the while loop, entered with offset < hex.length, up to
\* the next test of the loop: exit says that the loop is left, by a break or
\* because the test fails; offset and results are their values then.  When
\* dataLength is NaN, the test of the length is false, the slice is empty,
\* offset becomes NaN and the test of the loop fails.
Iteration(hex, offset, results) ==
  IF offset + 10 > Len(hex)
  THEN [exit |-> TRUE, offset |-> offset, results |-> results]
  ELSE LET dataLength == ParseIntAny(JsSlice(hex, offset, offset + 10))
           start == offset + 10
           next == start + dataLength.value * 2
       IN  IF dataLength.nan
           THEN [exit |-> TRUE, offset |-> start,
                 results |-> Pushed(results, decodeResMessage(<<>>))]
           ELSE IF next > Len(hex)
           THEN [exit |-> TRUE, offset |-> start, results |-> results]
           ELSE [exit |-> ~(next < Len(hex)), offset |-> next,
                 results |-> Pushed(results,
                   decodeResMessage(FromHexAny(JsSlice(hex, start, next))))]

RECURSIVE Join(_)
\* messages.join('')
Join(ss) == IF ss = <<>> THEN <<>> ELSE Head(ss) \o Join(Tail(ss))

----------------------------------------------------------------------------
(* processChunk *)

\* the header test that knows the header 01 00 00 only
HeaderSize_Only01(chunk) ==
  IF /\ Len(chunk) > 5
     /\ chunk[1] = 1 /\ chunk[2] = 0 /\ chunk[3] = 0
  THEN 5 ELSE 0

\* the header test of processChunk: 5 for a chunk of more than 5 bytes that
\* starts 01 00 00 or 02 00 00, else 0
HeaderSize(chunk) ==
  IF /\ Len(chunk) > 5
     /\ chunk[1] \in {1, 2} /\ chunk[2] = 0 /\ chunk[3] = 0
  THEN 5 ELSE 0

\* payload[0] === 0x1f && payload[1] === 0x8b
IsGzip(bytes) == Len(bytes) >= 2 /\ bytes[1] = 31 /\ bytes[2] = 139

\* `API Error: ${JSON.stringify(parsed.error) || 'Unknown error'}`
ApiErrorText(json) ==
  ApiErrorPrefix \o (IF json = <<>> THEN UnknownError ELSE json)

\* throw new Error(...) for the source text err of a truthy parsed.error;
\* <<>> when nothing is thrown
ApiErrorMessage(err) ==
  IF Truthy(err) THEN ApiErrorText(JsonStringify(err)) ELSE <<>>

\* the body of if (jsonMatch) for the parse result of jsonMatch[0]
ApiErrorOfParsed(jsonMatch, parsed) ==
  IF parsed.ok THEN ApiErrorMessage(ErrorMember(jsonMatch, parsed.mem)) ELSE <<>>

\* the body of if (text.includes('{"error"')) for the match jsonMatch[0]
\* (<<>> when the pattern does not match)
ApiErrorOfMatch(jsonMatch) ==
  IF jsonMatch = <<>> THEN <<>>
  ELSE ApiErrorOfParsed(jsonMatch, JsonParseObject(jsonMatch))

\* the JSON error check of processChunk on the text of a headered frame: the
\* message of the error it throws, <<>> when it throws none
ApiErrorOf(text) ==
  IF Includes(text, ErrorKey) THEN ApiErrorOfMatch(LazyBraceMatch(text)) ELSE <<>>

Returned(text) == [ok |-> TRUE, error |-> <<>>, text |-> text]
Thrown(error) == [ok |-> FALSE, error |-> error, text |-> <<>>]

\* the gzip branches when the error of gunzip is thrown on
GunzipAndClean_Throws(z) ==
  IF z.ok THEN Returned(cleanResponseText(z.text)) ELSE Thrown(<<>>)

\* the gzip branches: the cleaned text, the empty text when gunzip fails
GunzipAndClean(z) == Returned(IF z.ok THEN cleanResponseText(z.text) ELSE <<>>)

\* the headered text branch for the message apiError of the JSON error check
HeaderedText(text, apiError) ==
  IF apiError # <<>> THEN Thrown(apiError) ELSE Returned(cleanResponseText(text))

\* the rest of processChunk for the messages parseHexResponse recovered
ProtocolOrPlain(chunk, messages) ==
  IF Len(messages) > 0 THEN Returned(Join(messages))
  ELSE Returned(cleanResponseText(Utf8Decode(chunk)))

\* processChunk for the payload chunk.slice(headerSize)
ProcessPayload(chunk, headerSize, payload) ==
  IF Len(chunk) > 5 /\ IsGzip(payload)
  THEN GunzipAndClean(decompressGzipData(payload))
  ELSE IF Len(chunk) > 5 /\ headerSize > 0
  THEN HeaderedText(Utf8Decode(payload), ApiErrorOf(Utf8Decode(payload)))
  ELSE IF IsGzip(chunk)
  THEN GunzipAndClean(decompressGzipData(chunk))
  ELSE ProtocolOrPlain(chunk, parseHexResponse(ToHex(chunk)))

\* processChunk(chunk): [ok |-> TRUE, text] when it returns text,
\* [ok |-> FALSE, error] when it throws the error with that message.  Only
\* the API error leaves its try block, so its catch-all fallback is not
\* reached.
processChunk(chunk) ==
  ProcessPayload(chunk, HeaderSize(chunk), Slice(chunk, HeaderSize(chunk) + 1))

----------------------------------------------------------------------------
(* Frames the transport can deliver *)

Headered(first, payload) == <<first, 0, 0, 0, Len(payload)>> \o payload

\* "Hi": plain text of at most 5 bytes
FramePlain == <<72, 105>>
\* 02 00 00 00 02 "{}": the end-of-stream marker
FrameEnd02 == Headered(2, Braces)
\* 01 00 00 00 02 "{}"
FrameEnd01 == Headered(1, Braces)
\* " ": a frame of at most 5 bytes that cleans to the empty text
FrameBlank == <<32>>
\* 02 00 00 00 0d '{"error":"x"}'
FrameErrFlat == Headered(2, <<123,34,101,114,114,111,114,34,58,34,120,34,125>>)
\* 02 00 00 00 13 '{"error":{"c":"x"}}'
FrameErrNested == Headered(2, <<123,34,101,114,114,111,114,34,58,123,34,99,34,58,34,120,34,125,125>>)
\* 01 00 00 00 07 gzip("Ok")
FrameGzip == Headered(1, GzipEncode(<<79, 107>>))
\* 00 00 00 00 03 0a 01 "!": one length-prefixed protocol message
FrameProto == <<0, 0, 0, 0, 3, 10, 1, 33>>

\* the frames the transport of the stream delivers
Frames == <<FramePlain, FrameEnd02, FrameEnd01, FrameBlank,
            FrameErrFlat, FrameErrNested, FrameGzip, FrameProto>>

FrameIds == 1..Len(Frames)

\* the result of processChunk for every frame of Frames
Processed == [i \in FrameIds |-> processChunk(Frames[i])]

----------------------------------------------------------------------------
(* State *)

\* shortTimeout of pull, in ms
shortTimeout == 5000
\* CursorStream.idleTimeout, in ms
idleTimeout == 10000
\* the pause of pull after a small empty frame, in ms
smallChunkPause == 50
\* the high water mark of new ReadableStream(source) without a strategy
highWaterMark == 1

\* the rejection of a failed transport read: "Stream error"
TransportError == <<83,116,114,101,97,109,32,101,114,114,111,114>>
\* the TypeError of controller.enqueue and controller.close on a stream that
\* is closed, errored or closing: "Invalid state"
InvalidState == <<73,110,118,97,108,105,100,32,115,116,97,116,101>>

\* a read result without a value
NoValue == 0

VARIABLES
  \* CursorStream fields
  done, lastActivity, chunkCount, emptyChunkCount,
  \* pull(): its position, the frame of its last read result that had one
  \* (a position in Frames), the time its timer was started
  pc, value, timerStart,
  \* the ReadableStream of toStream() and its controller
  started, sstate, storedError, closeRequested, queue, readRequests,
  pulling, pullAgain,
  \* the transport reader (response.body.getReader()): its state, the number
  \* of frames that arrived, the frames it buffers (by their number of
  \* arrival), the reads of timed-out pulls that are still pending
  netState, sent, netQueue, abandoned,
  \* the consumer: the results of its reads in order, the number of reads it
  \* made on a closed or errored stream, whether it cancelled
  results, postReads, cancelled,
  \* the clock (Date.now() and the timers), in ms
  now,
  \* history: the chunks enqueued in order, the frames pull received in
  \* order (by their number of arrival), and for every enqueued chunk the
  \* number of frames received when it was enqueued
  emitted, recvLog, emitSrc,
  \* ChatCompletions.create(): the request, the position of the call, the
  \* number of calls of createHexMessage and of client.post it made, the
  \* frames createCompletion collected, and how the call settled
  params, cpc, encodeCalls, postCalls, chunks, outcome,
  \* a call of a function of the library on its own: the function, its
  \* argument and what it returned
  fn, arg, ret,
  \* a call of createHexMessage on its own: its position, its arguments (the
  \* messages, the model name and the identifiers uuidv4 will return, in the
  \* order of its calls) and the buffer it returned
  encPc, encArgs, encRet,
  \* APIClient.request(): the client's maxRetries, the loop variable, the
  \* position of the call, lastError, the number of calls of fetch, how each
  \* of them settled, the waits between attempts in ms, and how the request
  \* settled
  maxRetries, attempt, rpc, lastError, fetchCalls, fetchLog, sleeps, settled,
  \* the options of the call (whether options.signal is given, and
  \* options.timeout), the timer setTimeout started in every attempt, and
  \* whether the signal handed to the call of fetch in flight was aborted
  signalGiven, optTimeout, timers, fetchAborted,
  \* the loop of a call of parseHexResponse: its position, the argument, and
  \* the variables offset and results
  loopPc, hexString, hexOffset, hexResults,
  \* several requests at once: the CursorStream object of every request with
  \* its reader and its stream, and the clock they share, in ms
  instances, clock

ctl == <<sstate, storedError, closeRequested, queue, readRequests, pullAgain,
         results, emitted, emitSrc>>
fields == <<done, lastActivity, chunkCount, emptyChunkCount>>
net == <<netState, sent, netQueue, abandoned>>
stream == <<done, lastActivity, chunkCount, emptyChunkCount, pc, value, timerStart,
            started, sstate, storedError, closeRequested, queue, readRequests,
            pulling, pullAgain, netState, sent, netQueue, abandoned,
            results, postReads, cancelled, now, emitted, recvLog, emitSrc>>
request == <<params, cpc, encodeCalls, postCalls, chunks, outcome>>
call == <<fn, arg, ret>>
encode == <<encPc, encArgs, encRet>>
\* what the steps of a stream, of create() and of a call of a function leave
\* alone besides one another
transport == <<maxRetries, attempt, rpc, lastError, fetchCalls, fetchLog, sleeps,
               settled, signalGiven, optTimeout, timers, fetchAborted>>
pair == <<instances, clock>>
loop == <<loopPc, hexString, hexOffset, hexResults>>
more == <<encode, transport, pair, loop>>
\* what the steps of a stream leave alone
rest == <<request, call, more>>
vars == <<stream, request, call, more>>

\* constructor and toStream(): start() has stored the controller, the
\* promise of start() is not yet fulfilled
StreamInit ==
  /\ done = FALSE /\ lastActivity = 0 /\ chunkCount = 0 /\ emptyChunkCount = 0
  /\ pc = "idle" /\ value = NoValue /\ timerStart = 0
  /\ started = FALSE /\ sstate = "readable" /\ storedError = <<>>
  /\ closeRequested = FALSE /\ queue = <<>> /\ readRequests = 0
  /\ pulling = FALSE /\ pullAgain = FALSE
  /\ netState = "open" /\ sent = 0 /\ netQueue = <<>> /\ abandoned = 0
  /\ results = <<>> /\ postReads = 0 /\ cancelled = FALSE
  /\ now = 0
  /\ emitted = <<>> /\ recvLog = <<>> /\ emitSrc = <<>>

\* a message of a request: its role and the character codes of its content
Message(role, content) == [role |-> role, content |-> content]

\* "gpt-4o"
ModelName == <<103,112,116,45,52,111>>

\* the parameters of create(): isArray is FALSE when params.messages is
\* missing or is not an array
Params(isArray, messages, model, isStream) ==
  [isArray |-> isArray, messages |-> messages, model |-> model,
   stream |-> isStream]

\* how create() settled: not yet, with the ReadableStream of toStream(), with
\* a completion whose message has the content text, or with an error
NoOutcome == [kind |-> "none", content |-> <<>>, name |-> "", message |-> <<>>]
StreamOutcome == [kind |-> "stream", content |-> <<>>, name |-> "", message |-> <<>>]
CompletionOutcome(text) ==
  [kind |-> "completion", content |-> text, name |-> "", message |-> <<>>]
ErrorOutcome(name, message) ==
  [kind |-> "error", content |-> <<>>, name |-> name, message |-> message]

\* create() was called with stream: true for one user message and has
\* returned the stream
RequestStreamed ==
  /\ params = Params(TRUE, <<Message("user", <<104, 105>>)>>, ModelName, TRUE)
  /\ cpc = "settled"
  /\ encodeCalls = 1 /\ postCalls = 1
  /\ chunks = <<>>
  /\ outcome = StreamOutcome

\* no function of the library is being called on its own
CallIdle == fn = "none" /\ arg = <<>> /\ ret = <<>>

\* createHexMessage is not being called on its own
EncodeIdle == encPc = "none" /\ encArgs = <<>> /\ encRet = <<>>

\* nothing else is going on
\* an error value: its class, its name, its status (0 for undefined), its
\* message, and the attempt of request() that made it (0 for none)
ErrorValue(class, name, status, message, at) ==
  [class |-> class, name |-> name, status |-> status, message |-> message,
   at |-> at]

\* lastError = null
NoError == ErrorValue("null", "", 0, <<>>, 0)

\* how request() settled: not yet, with the response, or with an error
Pending == [kind |-> "pending", error |-> NoError]
ResolvedWith == [kind |-> "response", error |-> NoError]
RejectedWith(e) == [kind |-> "error", error |-> e]

\* the default of maxRetries
DefaultMaxRetries == 2

\* options.timeout ?? 60000 of the constructor of APIClient, in ms
DefaultTimeout == 60000

\* an option that is not given (undefined)
Undefined == -1

\* request() of a client with the default maxRetries is not being called
TransportIdle ==
  /\ maxRetries = DefaultMaxRetries /\ attempt = 0 /\ rpc = "none"
  /\ lastError = NoError
  /\ fetchCalls = 0 /\ fetchLog = <<>> /\ sleeps = <<>> /\ settled = Pending
  /\ signalGiven = FALSE /\ optTimeout = Undefined /\ timers = <<>>
  /\ fetchAborted = FALSE

\* no requests run side by side
PairIdle == instances = <<>> /\ clock = 0

\* no loop of parseHexResponse is followed
LoopIdle ==
  loopPc = "none" /\ hexString = <<>> /\ hexOffset = 0 /\ hexResults = <<>>

MoreIdle == EncodeIdle /\ TransportIdle /\ PairIdle /\ LoopIdle

Init == StreamInit /\ RequestStreamed /\ CallIdle /\ MoreIdle

----------------------------------------------------------------------------
(* The ReadableStream controller, on a record of the stream's state *)

Ctl == [sstate |-> sstate, storedError |-> storedError,
        closeRequested |-> closeRequested, queue |-> queue,
        readRequests |-> readRequests, pullAgain |-> pullAgain,
        results |-> results, emitted |-> emitted, emitSrc |-> emitSrc]

SetCtl(S) ==
  /\ sstate' = S.sstate /\ storedError' = S.storedError
  /\ closeRequested' = S.closeRequested /\ queue' = S.queue
  /\ readRequests' = S.readRequests /\ pullAgain' = S.pullAgain
  /\ results' = S.results /\ emitted' = S.emitted /\ emitSrc' = S.emitSrc

ChunkResult(c) == [kind |-> "chunk", chunk |-> <<c>>, error |-> <<>>]
ClosedResult == [kind |-> "closed", chunk |-> <<>>, error |-> <<>>]
ErrorResult(e) == [kind |-> "error", chunk |-> <<>>, error |-> e]

\* ReadableStreamDefaultControllerCanCloseOrEnqueue
CanCloseOrEnqueue(S) == S.sstate = "readable" /\ ~S.closeRequested

\* ReadableStreamDefaultControllerShouldCallPull
ShouldCallPull(S) ==
  /\ CanCloseOrEnqueue(S)
  /\ started
  /\ (S.readRequests > 0 \/ highWaterMark - Len(S.queue) > 0)

\* ReadableStreamDefaultControllerCallPullIfNeeded while pull() is running:
\* [[pulling]] is true, so it only records that pull is wanted again
CallPullWhilePulling(S) ==
  IF ShouldCallPull(S) THEN [S EXCEPT !.pullAgain = TRUE] ELSE S

\* controller.enqueue(chunk) on a stream that can enqueue: the chunk answers
\* the pending read or is queued
Enqueue(S, chunk) ==
  LET S1 == [S EXCEPT !.emitted = Append(@, chunk),
                      !.emitSrc = Append(@, Len(recvLog))]
      S2 == IF S.readRequests > 0
            THEN [S1 EXCEPT !.readRequests = @ - 1,
                            !.results = Append(@, ChunkResult(chunk))]
            ELSE [S1 EXCEPT !.queue = Append(@, chunk)]
  IN  CallPullWhilePulling(S2)

\* controller.close() on a stream that can close: the stream closes once its
\* queue is empty
Close(S) ==
  IF S.queue = <<>>
  THEN [S EXCEPT !.closeRequested = TRUE, !.sstate = "closed",
                 !.readRequests = 0,
                 !.results = IF S.readRequests > 0
                             THEN Append(@, ClosedResult) ELSE @]
  ELSE [S EXCEPT !.closeRequested = TRUE]

\* the error is swallowed
Error_Swallowed(S, e) == S

\* controller.error(e): nothing on a stream that is not readable, else the
\* queue is dropped and the pending read rejects
Error(S, e) ==
  IF S.sstate # "readable" THEN S
  ELSE [S EXCEPT !.sstate = "errored", !.storedError = e, !.queue = <<>>,
                 !.readRequests = 0,
                 !.results = IF S.readRequests > 0
                             THEN Append(@, ErrorResult(e)) ELSE @]

\* the chunk of enqueueChunk(content)
ContentChunk(content) == [delta |-> <<content>>, finish_reason |-> "none"]
\* a final chunk whose delta carries a content
FinalChunk_WithContent == [delta |-> <<<<>>>>, finish_reason |-> "stop"]

\* the chunk of enqueueFinalChunk()
FinalChunk == [delta |-> <<>>, finish_reason |-> "stop"]

\* the chunk is dropped
enqueueChunk_Dropped(S, content) == S

\* the chunk is enqueued twice
enqueueChunk_Twice(S, content) ==
  IF CanCloseOrEnqueue(S)
  THEN Enqueue(Enqueue(S, ContentChunk(content)), ContentChunk(content))
  ELSE Error(S, InvalidState)

\* enqueueChunk(content) inside the try of pull: controller.enqueue throws on
\* a stream that cannot enqueue, and the catch hands the error to
\* controller.error
enqueueChunk(S, content) ==
  IF CanCloseOrEnqueue(S) THEN Enqueue(S, ContentChunk(content))
  ELSE Error(S, InvalidState)

\* the same without this.controller.close()
FinishStream_NoClose(S) ==
  IF CanCloseOrEnqueue(S)
  THEN IF done THEN S ELSE Enqueue(S, FinalChunk)
  ELSE Error(S, InvalidState)

\* if (!this.done) { this.enqueueFinalChunk(); this.done = true }
\* this.controller.close(); inside the try of pull
FinishStream(S) ==
  IF CanCloseOrEnqueue(S)
  THEN Close(IF done THEN S ELSE Enqueue(S, FinalChunk))
  ELSE Error(S, InvalidState)

\* this.done is left as it was
FinishDone_Unset(S) == done

\* the value of this.done after FinishStream
FinishDone(S) == done \/ CanCloseOrEnqueue(S)

----------------------------------------------------------------------------
(* pull(), split at its awaits *)

\* ReadableStreamDefaultControllerCallPullIfNeeded outside pull(): pull() is
\* invoked, or recorded as wanted again while one is running.  S is the
\* state of the stream at the call.
CallPullIfNeeded(S) ==
  IF ~ShouldCallPull(S) THEN SetCtl(S) /\ UNCHANGED <<pulling, pc>>
  ELSE IF pulling THEN SetCtl([S EXCEPT !.pullAgain = TRUE]) /\ UNCHANGED <<pulling, pc>>
  ELSE SetCtl(S) /\ pulling' = TRUE /\ pc' = "invoked"

\* pull() up to its first await: a done stream is closed, else the timer is
\* started and reader.read() is called.  It runs in the step that invoked
\* it: nothing else happens while pc = "invoked".
PullBegin ==
  /\ pc = "invoked"
  /\ IF done
     THEN /\ SetCtl(IF CanCloseOrEnqueue(Ctl) THEN Close(Ctl)
                    ELSE Error(Ctl, InvalidState))
          /\ pc' = "returned"
          /\ UNCHANGED timerStart
     ELSE /\ pc' = "awaitRead"
          /\ timerStart' = now
          /\ UNCHANGED ctl
  /\ UNCHANGED <<fields, value, started, pulling, net, postReads, cancelled,
                 now, recvLog>>
  /\ UNCHANGED rest

\* pull() from the result of Promise.race to its next await or its return
\* (lines 214-247); abandon is 1 when the timer won the race and the read
\* stays pending
AfterRace(result, abandon) ==
  /\ abandoned' = abandoned + abandon
  /\ IF result.done
     THEN \* the reader indicates completion
          /\ SetCtl(FinishStream(Ctl))
          /\ done' = FinishDone(Ctl)
          /\ pc' = "returned"
          /\ UNCHANGED <<lastActivity, value, recvLog>>
     ELSE IF result.value = NoValue
     THEN \* a result without a value: end the stream when it had content
          \* and was idle for longer than idleTimeout, else keep waiting
          IF chunkCount > 0 /\ now - lastActivity > idleTimeout
          THEN /\ SetCtl(FinishStream(Ctl))
               /\ done' = FinishDone(Ctl)
               /\ pc' = "returned"
               /\ UNCHANGED <<lastActivity, value, recvLog>>
          ELSE /\ pc' = "returned"
               /\ UNCHANGED <<ctl, done, lastActivity, value, recvLog>>
     ELSE /\ lastActivity' = now
          /\ value' = result.value
          /\ recvLog' = Append(recvLog, Head(netQueue))
          /\ pc' = "awaitProcess"
          /\ UNCHANGED <<ctl, done>>
  /\ timerStart' = 0
  /\ UNCHANGED <<chunkCount, emptyChunkCount, started, pulling, postReads,
                 cancelled, now>>

\* the pending read of pull settles first: with the next buffered frame, with
\* done on a transport that is closed, or with a rejection, which the catch
\* hands to controller.error
RaceRead ==
  /\ pc = "awaitRead"
  /\ abandoned = 0
  /\ netQueue # <<>> \/ netState # "open"
  /\ IF netState = "errored"
     THEN /\ SetCtl(Error(Ctl, TransportError))
          /\ pc' = "returned"
          /\ timerStart' = 0
          /\ UNCHANGED <<fields, value, started, pulling, net, postReads,
                         cancelled, now, recvLog>>
     ELSE IF netQueue # <<>>
     THEN /\ \E f \in FrameIds : AfterRace([done |-> FALSE, value |-> f], 0)
          /\ netQueue' = Tail(netQueue)
          /\ UNCHANGED <<netState, sent>>
     ELSE /\ AfterRace([done |-> TRUE, value |-> NoValue], 0)
          /\ UNCHANGED <<netState, sent, netQueue>>
  /\ UNCHANGED rest

\* the timer of pull settles first: the read is still pending after
\* shortTimeout, the race yields { done: true, value: undefined }
RaceTimeout ==
  /\ pc = "awaitRead"
  /\ now - timerStart >= shortTimeout
  /\ netState = "open" /\ netQueue = <<>>
  /\ AfterRace([done |-> TRUE, value |-> NoValue], 1)
  /\ UNCHANGED <<netState, sent, netQueue>>
  /\ UNCHANGED rest

\* the same test for the header 01 00 00
IsEndMarker_Header01(frame) ==
  /\ Len(frame) >= 5
  /\ frame[1] = 1 /\ frame[2] = 0 /\ frame[3] = 0
  /\ Trim(Utf8Decode(Slice(frame, 6))) = Braces

\* the end-of-stream test of pull on the raw frame (lines 254-262)
IsEndMarker(frame) ==
  /\ Len(frame) >= 5
  /\ frame[1] = 2 /\ frame[2] = 0 /\ frame[3] = 0
  /\ Trim(Utf8Decode(Slice(frame, 6))) = Braces

\* the same test without the condition on the content emitted before
EndsByEmpties_AnyCount(count, empties) == empties >= 2

\* the same test with a threshold of three empty frames
EndsByEmpties_Three(count, empties) == count > 0 /\ empties >= 3

\* the test of pull after an empty frame (line 278): content was emitted
\* before and this is at least the second empty frame since
EndsByEmpties(count, empties) == count > 0 /\ empties >= 2

\* pull() from the result r of processChunk(frame) to its next await or its
\* return (lines 250-303)
AfterProcessResult(frame, r) ==
  IF ~r.ok
  THEN \* processChunk threw: the catch errors the stream
       /\ SetCtl(Error(Ctl, r.error))
       /\ pc' = "returned"
       /\ UNCHANGED <<fields, timerStart>>
  ELSE IF IsEndMarker(frame)
  THEN /\ SetCtl(FinishStream(Ctl))
       /\ done' = FinishDone(Ctl)
       /\ pc' = "returned"
       /\ UNCHANGED <<lastActivity, chunkCount, emptyChunkCount, timerStart>>
  ELSE IF Len(r.text) = 0
  THEN /\ emptyChunkCount' = emptyChunkCount + 1
       /\ IF EndsByEmpties(chunkCount, emptyChunkCount + 1)
          THEN /\ SetCtl(FinishStream(Ctl))
               /\ done' = FinishDone(Ctl)
               /\ pc' = "returned"
               /\ UNCHANGED timerStart
          ELSE IF Len(frame) <= 5
          THEN /\ pc' = "sleep"
               /\ timerStart' = now
               /\ UNCHANGED <<ctl, done>>
          ELSE /\ pc' = "returned"
               /\ UNCHANGED <<ctl, done, timerStart>>
       /\ UNCHANGED <<lastActivity, chunkCount>>
  ELSE /\ emptyChunkCount' = 0
       /\ SetCtl(enqueueChunk(Ctl, r.text))
       /\ chunkCount' = IF CanCloseOrEnqueue(Ctl) THEN chunkCount + 1
                        ELSE chunkCount
       /\ pc' = "returned"
       /\ UNCHANGED <<done, lastActivity, timerStart>>

\* the await of processChunk(value) settles
AfterProcess ==
  /\ pc = "awaitProcess"
  /\ AfterProcessResult(Frames[value], Processed[value])
  /\ UNCHANGED <<value, started, pulling, net, postReads, cancelled, now,
                 recvLog>>
  /\ UNCHANGED rest

\* the pause after a small empty frame is over
SleepDone ==
  /\ pc = "sleep"
  /\ now - timerStart >= smallChunkPause
  /\ pc' = "returned"
  /\ timerStart' = 0
  /\ UNCHANGED <<fields, value, started, ctl, pulling, net, postReads,
                 cancelled, now, recvLog>>
  /\ UNCHANGED rest

\* the promise of pull() fulfils: pull() is invoked again only when it was
\* wanted again while it ran
PullFulfilled ==
  /\ pc = "returned"
  /\ IF pullAgain /\ ShouldCallPull(Ctl)
     THEN pulling' = TRUE /\ pc' = "invoked"
     ELSE pulling' = FALSE /\ pc' = "idle"
  /\ pullAgain' = FALSE
  /\ UNCHANGED <<fields, value, timerStart, started, sstate, storedError,
                 closeRequested, queue, readRequests, net, results, postReads,
                 cancelled, now, emitted, recvLog, emitSrc>>
  /\ UNCHANGED rest

----------------------------------------------------------------------------
(* The stream, its consumer, the transport and the clock *)

\* the promise of start() fulfils
StartDone ==
  /\ ~started
  /\ pc # "invoked"
  /\ started' = TRUE
  /\ IF CanCloseOrEnqueue(Ctl)
     THEN pulling' = TRUE /\ pc' = "invoked"
     ELSE UNCHANGED <<pulling, pc>>
  /\ UNCHANGED <<fields, value, timerStart, ctl, net, postReads, cancelled,
                 now, recvLog>>
  /\ UNCHANGED rest

\* reader.read() of the consumer, which reads one chunk at a time as the
\* async iterator does
ConsumerRead ==
  /\ pc # "invoked"
  /\ readRequests = 0
  /\ IF sstate = "closed"
     THEN /\ postReads < MaxPostReads
          /\ postReads' = postReads + 1
          /\ results' = Append(results, ClosedResult)
          /\ UNCHANGED <<sstate, storedError, closeRequested, queue, readRequests,
                         pullAgain, emitted, emitSrc, pulling, pc>>
     ELSE IF sstate = "errored"
     THEN /\ postReads < MaxPostReads
          /\ postReads' = postReads + 1
          /\ results' = Append(results, ErrorResult(storedError))
          /\ UNCHANGED <<sstate, storedError, closeRequested, queue, readRequests,
                         pullAgain, emitted, emitSrc, pulling, pc>>
     ELSE IF queue # <<>>
     THEN LET S == [Ctl EXCEPT !.queue = Tail(queue),
                               !.results = Append(@, ChunkResult(Head(queue)))]
          IN  /\ IF closeRequested /\ Tail(queue) = <<>>
                 THEN SetCtl([S EXCEPT !.sstate = "closed"]) /\ UNCHANGED <<pulling, pc>>
                 ELSE CallPullIfNeeded(S)
              /\ UNCHANGED postReads
     ELSE /\ CallPullIfNeeded([Ctl EXCEPT !.readRequests = 1])
          /\ UNCHANGED postReads
  /\ UNCHANGED <<fields, value, timerStart, started, net, cancelled, now, recvLog>>
  /\ UNCHANGED rest

\* reader.cancel() of the consumer: a readable stream closes, its queue is
\* dropped, its pending read reports closed, and the cancel callback of
\* toStream() cancels the transport reader, whose pending reads report done
ConsumerCancel ==
  /\ pc # "invoked"
  /\ ~cancelled
  /\ cancelled' = TRUE
  /\ IF sstate = "readable"
     THEN /\ SetCtl([Ctl EXCEPT !.sstate = "closed", !.queue = <<>>,
                                !.readRequests = 0,
                                !.results = IF readRequests > 0
                                            THEN Append(@, ClosedResult) ELSE @])
          /\ netState' = "cancelled"
          /\ netQueue' = <<>>
          /\ abandoned' = 0
          /\ UNCHANGED sent
     ELSE UNCHANGED <<ctl, net>>
  /\ UNCHANGED <<fields, pc, value, timerStart, started, pulling, postReads,
                 now, recvLog>>
  /\ UNCHANGED rest

\* a frame arrives at the transport reader: it answers the oldest pending
\* read, which is the read of a timed-out pull when there is one, else it is
\* buffered.  Its bytes are chosen when pull receives it (RaceRead): nothing
\* looks at them before.
NetDeliver ==
  /\ pc # "invoked"
  /\ netState = "open"
  /\ sent < MaxFrames
  /\ sent' = sent + 1
  /\ IF abandoned > 0
     THEN abandoned' = abandoned - 1 /\ UNCHANGED netQueue
     ELSE netQueue' = Append(netQueue, sent + 1) /\ UNCHANGED abandoned
  /\ UNCHANGED <<fields, pc, value, timerStart, started, ctl, pulling, netState,
                 postReads, cancelled, now, recvLog>>
  /\ UNCHANGED rest

\* the transport ends: no more frames, every pending read reports done
NetClose ==
  /\ pc # "invoked"
  /\ netState = "open"
  /\ netState' = "closed"
  /\ abandoned' = 0
  /\ UNCHANGED <<fields, pc, value, timerStart, started, ctl, pulling, sent,
                 netQueue, postReads, cancelled, now, recvLog>>
  /\ UNCHANGED rest

\* the transport fails: its buffer is dropped, every read rejects
NetError ==
  /\ pc # "invoked"
  /\ netState = "open"
  /\ netState' = "errored"
  /\ netQueue' = <<>>
  /\ abandoned' = 0
  /\ UNCHANGED <<fields, pc, value, timerStart, started, ctl, pulling, sent,
                 postReads, cancelled, now, recvLog>>
  /\ UNCHANGED rest

\* time passes
Tick ==
  /\ pc # "invoked"
  /\ now < MaxTicks * TickMs
  /\ now' = now + TickMs
  /\ UNCHANGED <<fields, pc, value, timerStart, started, ctl, pulling, net,
                 postReads, cancelled, recvLog>>
  /\ UNCHANGED rest

Next ==
  \/ StartDone
  \/ PullBegin
  \/ RaceRead
  \/ RaceTimeout
  \/ AfterProcess
  \/ SleepDone
  \/ PullFulfilled
  \/ ConsumerRead
  \/ ConsumerCancel
  \/ NetDeliver
  \/ NetClose
  \/ NetError
  \/ Tick

Spec == Init /\ [][Next]_vars

----------------------------------------------------------------------------
(* Properties of the stream *)

\* the i-th answer the consumer got is the final chunk
GotFinal(i) ==
  /\ results[i].kind = "chunk"
  /\ results[i].chunk[1].finish_reason = "stop"

\* every answer the consumer got after the final chunk reports closed
ClosedAfterFinal ==
  \A i, j \in 1..Len(results) :
    (i < j /\ GotFinal(i)) => results[j].kind = "closed"

\* the last answer the consumer got in the next state, when it got one
NewResult == results'[Len(results')]

\* a chunk is enqueued in this step, and it is the final chunk
EmitsFinal ==
  /\ Len(emitted') = Len(emitted) + 1
  /\ emitted'[Len(emitted')].finish_reason = "stop"
  /\ emitted'[Len(emitted')].delta = <<>>

\* C1 as stated: once the stream is done it stays done, no chunk is emitted
\* any more, and every read of the consumer that is answered from then on
\* reports the stream closed.
C1_Original ==
  [][done => /\ done'
             /\ emitted' = emitted
             /\ (Len(results') > Len(results) => NewResult.kind = "closed")]_vars

\* C1 amended: once the stream is done it stays done, it is closed or closing,
\* no chunk is emitted any more, a read answered from then on reports closed
\* or hands out the chunk that was waiting at the head of the queue, and every
\* read answered after the final chunk was handed out reports closed.
C1_DoneIsTerminal ==
  /\ [](done => closeRequested)
  /\ [][done => /\ done'
                /\ emitted' = emitted
                /\ (Len(results') > Len(results) =>
                      \/ NewResult.kind = "closed"
                      \/ /\ queue # <<>>
                         /\ NewResult = ChunkResult(Head(queue)))]_vars
  /\ []ClosedAfterFinal

\* the stream is done, the consumer got the final chunk and then read again
C1_Witness ==
  /\ done /\ ~cancelled
  /\ Len(results) >= 2
  /\ GotFinal(Len(results) - 1)
  /\ results[Len(results)].kind = "closed"

\* C2: a stream on which controller.close() was called has enqueued exactly
\* one chunk with finish_reason "stop", that chunk is the last one enqueued
\* and its delta is empty; a consumer that did not cancel is told closed only
\* after it got that chunk.
C2_ClosedAfterOneStop ==
  /\ closeRequested =>
       /\ Len(emitted) > 0
       /\ emitted[Len(emitted)].finish_reason = "stop"
       /\ emitted[Len(emitted)].delta = <<>>
       /\ \A i \in 1..(Len(emitted) - 1) : emitted[i].finish_reason # "stop"
  /\ ~cancelled =>
       \A i \in 1..Len(results) :
         results[i].kind = "closed" =>
           /\ i > 1
           /\ GotFinal(i - 1) \/ results[i - 1].kind = "closed"

\* the stream closed after a content chunk and the final chunk, and the
\* consumer was told so
C2_Witness ==
  /\ sstate = "closed" /\ closeRequested /\ ~cancelled
  /\ Len(emitted) >= 2
  /\ emitted[1].finish_reason = "none"
  /\ results[Len(results)].kind = "closed"

\* C3 as stated: when the timer of a pull wins the race and no frame was
\* received so far, the stream is not done, no final chunk is enqueued and
\* the stream is not closed.
C3_TimeoutKeepsWaiting ==
  [][(RaceTimeout /\ recvLog = <<>>) =>
       /\ ~done'
       /\ emitted' = emitted
       /\ ~closeRequested'
       /\ sstate' = "readable"]_vars

\* C4 as stated: after one content frame and its delta, on a transport that
\* delivers nothing more, the final chunk is enqueued only after the idle
\* window has passed since the frame.
C4_FinalAfterIdleWindow ==
  [][(/\ sent = 1 /\ Len(recvLog) = 1 /\ Frames[value] = FramePlain
      /\ chunkCount = 1 /\ Len(emitted) = 1
      /\ netState = "open"
      /\ EmitsFinal)
     => now - lastActivity > idleTimeout]_vars

\* the frame starts with the header first 00 00 and its payload is "{}"
HeaderedBraces(frame, first) ==
  /\ Len(frame) > 5
  /\ frame[1] = first /\ frame[2] = 0 /\ frame[3] = 0
  /\ Utf8Decode(Slice(frame, 6)) = Braces

\* C5 as stated: when pull has processed a frame with the header 01 00 00 or
\* 02 00 00 and the payload "{}" on a stream that can enqueue, the stream is
\* done and the one chunk enqueued for the frame is the final chunk.
C5_Original ==
  [][(/\ pc = "awaitProcess"
      /\ CanCloseOrEnqueue(Ctl)
      /\ \/ HeaderedBraces(Frames[value], 1)
         \/ HeaderedBraces(Frames[value], 2)
      /\ AfterProcess)
     => (done' /\ EmitsFinal)]_vars

\* C5 amended: when pull has processed a frame with the header 02 00 00 and
\* the payload "{}" on a stream that can enqueue, the stream is done and
\* closing and the one chunk enqueued for the frame is the final chunk.
C5_EndMarker ==
  [][(/\ pc = "awaitProcess"
      /\ CanCloseOrEnqueue(Ctl)
      /\ HeaderedBraces(Frames[value], 2)
      /\ AfterProcess)
     => (done' /\ EmitsFinal /\ closeRequested')]_vars

\* the frame received last is 02 00 00 00 02 "{}", and the stream is done
\* with the final chunk as its only chunk
C5_Witness ==
  /\ recvLog # <<>>
  /\ Frames[value] = FrameEnd02
  /\ pc = "returned"
  /\ done
  /\ Len(emitted) = 1 /\ emitted[1].finish_reason = "stop"

\* C6: when the read of pull reports that the transport is complete, the
\* stream is done and closing and the final chunk is enqueued; every answer
\* the consumer gets after the final chunk reports closed.
C6_CompletionEnds ==
  /\ [][(/\ RaceRead
          /\ netState = "closed" /\ netQueue = <<>>
          /\ CanCloseOrEnqueue(Ctl))
         => (done' /\ EmitsFinal /\ closeRequested')]_vars
  /\ []ClosedAfterFinal

\* the transport completed, the consumer got the final chunk and was told
\* closed by its next read
C6_Witness ==
  /\ netState = "closed" /\ done
  /\ recvLog # <<>>
  /\ Len(results) >= 2
  /\ GotFinal(Len(results) - 1)
  /\ results[Len(results)].kind = "closed"

\* processChunk returns the empty text for the frame at position i of Frames
EmptyFrame(i) == Processed[i].ok /\ Len(Processed[i].text) = 0

\* an empty frame counts, and the second one after content ends the stream
CountsEmpty ==
  /\ emptyChunkCount' = emptyChunkCount + 1
  /\ (chunkCount > 0 /\ emptyChunkCount' >= 2 /\ CanCloseOrEnqueue(Ctl))
       => (done' /\ EmitsFinal /\ closeRequested')

\* C7 as stated: when pull has processed a frame whose cleaned text is
\* empty, emptyChunkCount is one more; if content was emitted before and the
\* counter has reached 2, the stream is done and the final chunk is enqueued.
C7_Original ==
  [][(pc = "awaitProcess" /\ EmptyFrame(value) /\ AfterProcess)
     => CountsEmpty]_vars

\* C7 amended: the same for a frame whose cleaned text is empty and that is
\* not the end-of-stream marker.
C7_EmptyFrames ==
  [][(/\ pc = "awaitProcess"
      /\ EmptyFrame(value)
      /\ ~HeaderedBraces(Frames[value], 2)
      /\ AfterProcess)
     => CountsEmpty]_vars

\* one content chunk, then two empty frames, and the stream is done
C7_Witness ==
  /\ chunkCount = 1 /\ emptyChunkCount = 2
  /\ done
  /\ Len(emitted) = 2 /\ emitted[2].finish_reason = "stop"

\* the chunks the consumer got, in order
RECURSIVE ChunksOf(_)
ChunksOf(rs) ==
  IF rs = <<>> THEN <<>>
  ELSE (IF Head(rs).kind = "chunk" THEN Head(rs).chunk ELSE <<>>)
       \o ChunksOf(Tail(rs))

\* C8: pull receives the frames in the order they arrived at the transport
\* reader; a content chunk is enqueued only in the step that ends the
\* processing of the frame received last, it carries the text of that
\* frame, and no chunk was enqueued for that frame before; the consumer
\* gets the chunks in the order they were enqueued.
C8_DeltasInArrivalOrder ==
  /\ [][recvLog' # recvLog =>
          /\ Len(recvLog') = Len(recvLog) + 1
          /\ SubSeq(recvLog', 1, Len(recvLog)) = recvLog
          /\ \A i \in 1..Len(recvLog) :
               recvLog[i] < recvLog'[Len(recvLog')]]_vars
  /\ [][(Len(emitted') > Len(emitted)
          /\ emitted'[Len(emitted')].finish_reason = "none")
         => /\ AfterProcess
            /\ emitted' = Append(emitted, ContentChunk(Processed[value].text))
            /\ emitSrc' = Append(emitSrc, Len(recvLog))
            /\ \A i \in 1..Len(emitSrc) : emitSrc[i] < Len(recvLog)]_vars
  /\ [][(Len(results') > Len(results) /\ NewResult.kind = "chunk")
         => NewResult.chunk = <<emitted'[Len(ChunksOf(results)) + 1]>>]_vars

\* the consumer got two content chunks, made of the first and the third frame
C8_Witness ==
  /\ Len(emitted) >= 2
  /\ emitted[1].finish_reason = "none" /\ emitted[2].finish_reason = "none"
  /\ emitSrc[1] = 1 /\ emitSrc[2] = 3
  /\ Len(ChunksOf(results)) >= 2

\* the message of the error for the JSON error envelope text: <<>> when
\* text is not a JSON object with a truthy member error
EnvelopeError(text) ==
  IF JsonParseObject(text).ok
  THEN ApiErrorMessage(ErrorMember(text, JsonParseObject(text).mem))
  ELSE <<>>

\* the payload of a headered frame as text
PayloadText(frame) == Utf8Decode(Slice(frame, 6))

\* C9 as stated: when pull has processed, on a readable stream, a headered
\* frame whose payload is a JSON object with an error member, the stream is
\* errored with the error that carries the serialized error member.
C9_ErrorEnvelopeErrors ==
  [][(/\ pc = "awaitProcess"
      /\ sstate = "readable"
      /\ HeaderSize(Frames[value]) > 0
      /\ EnvelopeError(PayloadText(Frames[value])) # <<>>
      /\ AfterProcess)
     => /\ sstate' = "errored"
        /\ storedError' = EnvelopeError(PayloadText(Frames[value]))]_vars

\* the stream is errored with e and the consumer's pending read rejects
ErrorsWith(e) ==
  /\ sstate' = "errored"
  /\ storedError' = e
  /\ readRequests > 0 =>
       (Len(results') = Len(results) + 1 /\ NewResult = ErrorResult(e))

\* C10: when the read of pull rejects, or processChunk throws, on a readable
\* stream, the stream is errored with that error and the pending read of the
\* consumer rejects with it; an errored stream stays errored with the same
\* error, enqueues nothing, answers every read with that error and calls
\* the transport's read no more.
C10_ErrorsAreTerminal ==
  /\ [][(RaceRead /\ netState = "errored" /\ sstate = "readable")
         => ErrorsWith(TransportError)]_vars
  /\ [][(/\ pc = "awaitProcess" /\ sstate = "readable"
          /\ ~Processed[value].ok
          /\ AfterProcess)
         => ErrorsWith(Processed[value].error)]_vars
  /\ [][sstate = "errored" =>
          /\ sstate' = "errored" /\ storedError' = storedError
          /\ emitted' = emitted
          /\ pc' # "awaitRead"
          /\ (Len(results') > Len(results)
                => NewResult = ErrorResult(storedError))]_vars

\* the transport failed, the pending read of the consumer rejected and so
\* did its next read
C10_Witness ==
  /\ sstate = "errored" /\ storedError = TransportError
  /\ netState = "errored"
  /\ Len(results) >= 2
  /\ results[Len(results) - 1] = ErrorResult(TransportError)
  /\ results[Len(results)] = ErrorResult(TransportError)

\* C11 as stated: whenever the consumer cancels, at whatever point, the
\* transport reader is not left open: it is cancelled in the same step, or
\* it had ended or failed before.
C11_CancelReleasesReader ==
  [][ConsumerCancel => netState' # "open"]_vars

----------------------------------------------------------------------------
(* ChatCompletions.create (src/index.ts) *)

\* number of messages of a request
MaxMessages == 2
\* number of frames the response body of a non-streaming request delivers
MaxChunks == 3

\* "Messages should be a non-empty array"
MessagesRequired == <<77,101,115,115,97,103,101,115,32,115,104,111,117,108,100,32,98,101,32,97,32,110,111,110,45,101,109,112,116,121,32,97,114,114,97,121>>
\* "Model is required"
ModelRequired == <<77,111,100,101,108,32,105,115,32,114,101,113,117,105,114,101,100>>
\* "Each message must have role and content"
RoleAndContentRequired == <<69,97,99,104,32,109,101,115,115,97,103,101,32,109,117,115,116,32,104,97,118,101,32,114,111,108,101,32,97,110,100,32,99,111,110,116,101,110,116>>
\* "Message role must be system, user, or assistant"
RoleNotAllowed == <<77,101,115,115,97,103,101,32,114,111,108,101,32,109,117,115,116,32,98,101,32,115,121,115,116,101,109,44,32,117,115,101,114,44,32,111,114,32,97,115,115,105,115,116,97,110,116>>
\* "Response body is null"
BodyIsNull == <<82,101,115,112,111,110,115,101,32,98,111,100,121,32,105,115,32,110,117,108,108>>
\* the rejection of client.post and of a failed read of the body
NetworkError == <<78,101,116,119,111,114,107,32,101,114,114,111,114>>

Roles == {"system", "user", "assistant"}

RECURSIVE ValidateMessages_AnyRole(_)
\* the loop without the test of the role against the three names
ValidateMessages_AnyRole(ms) ==
  IF ms = <<>> THEN <<>>
  ELSE IF Head(ms).role = "" \/ Head(ms).content = <<>> THEN RoleAndContentRequired
  ELSE ValidateMessages_AnyRole(Tail(ms))

RECURSIVE ValidateMessages(_)
\* the loop of validateParams over the messages: the message of the first
\* error it throws, <<>> when it throws none
ValidateMessages(ms) ==
  IF ms = <<>> THEN <<>>
  ELSE IF Head(ms).role = "" \/ Head(ms).content = <<>> THEN RoleAndContentRequired
  ELSE IF Head(ms).role \notin Roles THEN RoleNotAllowed
  ELSE ValidateMessages(Tail(ms))

\* validateParams without the test of the content of a message
validateParams_AnyContent(p) ==
  IF ~p.isArray \/ Len(p.messages) = 0 THEN MessagesRequired
  ELSE IF p.model = <<>> THEN ModelRequired
  ELSE IF \E i \in 1..Len(p.messages) : p.messages[i].role \notin Roles
    THEN RoleNotAllowed
  ELSE <<>>

\* validateParams: the message of the BadRequestError it throws, <<>> when
\* the parameters pass
validateParams(p) ==
  IF ~p.isArray \/ Len(p.messages) = 0 THEN MessagesRequired
  ELSE IF p.model = <<>> THEN ModelRequired
  ELSE ValidateMessages(p.messages)

\* the messages requests are made of: two well-formed ones, one without a
\* role, one with empty content, one with a role that is not allowed
RequestMessages ==
  {Message("user", <<104, 105>>), Message("assistant", <<111, 107>>),
   Message("", <<104, 105>>), Message("user", <<>>),
   Message("tool", <<104, 105>>)}

MessageLists ==
  UNION {[1..n -> RequestMessages] : n \in 0..MaxMessages}

\* the requests create() is called with
Requests ==
  {Params(TRUE, ms, m, st) :
     ms \in MessageLists, m \in {ModelName, <<>>}, st \in BOOLEAN}
  \cup {Params(FALSE, <<>>, m, st) : m \in {ModelName, <<>>}, st \in BOOLEAN}

----------------------------------------------------------------------------
(* cleanProtobufText and cleanResponseText of ChatCompletions *)

BEGIN_ASSISTANT == <<60,124,66,69,71,73,78,95,65,83,83,73,83,84,65,78,84,124,62>>
END_ASSISTANT == <<60,124,69,78,68,95,65,83,83,73,83,84,65,78,84,124,62>>

\* the line terminators, which "." of a regular expression does not match
IsLineTerminator(c) == c \in {10, 13, 8232, 8233}

IsPrintable(c) == c >= 32 /\ c <= 126

\* text.match(/\{.*\}/): from the first "{" that has a "}" after it on the
\* same line to the last "}" of that line; <<>> when there is no match
GreedyBraceMatch(text) ==
  LET ends(i) == {j \in (i + 1)..Len(text) :
                    /\ text[j] = 125
                    /\ \A m \in (i + 1)..(j - 1) : ~IsLineTerminator(text[m])}
      starts == {i \in 1..Len(text) : text[i] = 123 /\ ends(i) # {}}
  IN  IF starts = {} THEN <<>>
      ELSE SubSeq(text, SetMin(starts), SetMax(ends(SetMin(starts))))

\* the JSON error check of cleanResponseText: the message of the error it
\* throws, <<>> when it throws none
FullTextApiError(text) == ApiErrorOfMatch(GreedyBraceMatch(text))

RECURSIVE cleanProtobufLoop(_, _)
\* the loop of cleanProtobufText from the 1-based index i on
cleanProtobufLoop(text, i) ==
  IF i > Len(text) THEN <<>>
  ELSE IF /\ text[i] = 10 /\ i + 1 <= Len(text)
          /\ text[i + 1] > 0 /\ i + 1 + text[i + 1] <= Len(text)
    THEN SubSeq(text, i + 2, i + 1 + text[i + 1])
           \o cleanProtobufLoop(text, i + 2 + text[i + 1])
  ELSE IF IsPrintable(text[i]) THEN <<text[i]>> \o cleanProtobufLoop(text, i + 1)
  ELSE cleanProtobufLoop(text, i + 1)

cleanProtobufText(text) == Trim(cleanProtobufLoop(text, 1))

\* text.replace(/^\s*{}\s*/, '')
StripLeadingBraces(text) ==
  LET k == SetMin({j \in 1..(Len(text) + 1) : j = Len(text) + 1 \/ ~IsWS(text[j])})
  IN  IF OccursAt(Braces, text, k)
      THEN Slice(text, SetMin({j \in (k + 2)..(Len(text) + 1) :
                                 j = Len(text) + 1 \/ ~IsWS(text[j])}))
      ELSE text

\* text.replace(/[{}"*]+$/, '')
StripTrailingArtifacts(text) ==
  LET keep == {j \in 0..Len(text) :
                 \A m \in (j + 1)..Len(text) : text[m] \in {123, 125, 34, 42}}
  IN  SubSeq(text, 1, SetMin(keep))

\* .split('').filter(printable).join('')
OnlyPrintable(text) == SelectSeq(text, IsPrintable)

\* the text cleanResponseText makes of what comes before the system prompt
CleanedBefore(beforeSystem) ==
  Trim(OnlyPrintable(StripTrailingArtifacts(
         cleanProtobufText(Trim(StripLeadingBraces(beforeSystem))))))

RECURSIVE RemoveAll(_, _)
\* text.replace(/p/g, '') for a literal p
RemoveAll(p, text) ==
  IF text = <<>> THEN <<>>
  ELSE IF OccursAt(p, text, 1) THEN RemoveAll(p, Slice(text, Len(p) + 1))
  ELSE <<Head(text)>> \o RemoveAll(p, Tail(text))

\* the content between the last assistant markers, <<>> when they are not
\* there in that order
AssistantContent(text) ==
  LET a == LastIndexOf(BEGIN_ASSISTANT, text)
      b == LastIndexOf(END_ASSISTANT, text)
  IN  IF a # 0 /\ b # 0 /\ b > a
      THEN Trim(SubSeq(text, a + Len(BEGIN_ASSISTANT), b - 1))
      ELSE <<>>

\* the content after the last END_USER marker without the assistant markers,
\* <<>> when there is no END_USER marker
AfterUser(text) ==
  LET k == LastIndexOf(END_USER, text)
  IN  IF k = 0 THEN <<>>
      ELSE Trim(RemoveAll(END_ASSISTANT,
                  RemoveAll(BEGIN_ASSISTANT, Slice(text, k + Len(END_USER)))))

\* the final fallback of cleanResponseText
FinalText(text) ==
  IF Trim(text) = Braces \/ Trim(text) = <<>> THEN <<>>
  ELSE Trim(StripTrailingBraces(Trim(text)))

\* cleanResponseText after its JSON error check
ExtractResponse(text) ==
  LET systemStart == IndexFrom(BEGIN_SYSTEM, text, 1)
      before == IF systemStart > 1
                THEN CleanedBefore(Trim(SubSeq(text, 1, systemStart - 1)))
                ELSE <<>>
  IN  IF before # <<>> THEN before
      ELSE IF AssistantContent(text) # <<>> THEN AssistantContent(text)
      ELSE IF AfterUser(text) # <<>> THEN AfterUser(text)
      ELSE FinalText(text)

\* ChatCompletions.cleanResponseText(text), the clean of the non-streaming
\* path: [ok |-> FALSE, error] when it throws the API error
ChatCompletions_cleanResponseText(text) ==
  IF FullTextApiError(text) # <<>> THEN Thrown(FullTextApiError(text))
  ELSE Returned(ExtractResponse(text))

----------------------------------------------------------------------------
(* processResponseChunks, createCompletion, createStream, create *)

\* the test for a 4-byte zero prefix
IsZeroPrefixed(chunk) ==
  /\ Len(chunk) > 4
  /\ chunk[1] = 0 /\ chunk[2] = 0 /\ chunk[3] = 0 /\ chunk[4] = 0

\* the test that sends the payload of a chunk to gzipChunks
IsGzipChunk(chunk) ==
  Len(chunk) > 5 /\ IsGzip(Slice(chunk, HeaderSize(chunk) + 1))

\* what the loop hands to processChunk for a chunk that is not a gzip chunk
NonGzipInput(chunk) == IF IsZeroPrefixed(chunk) THEN Slice(chunk, 5) ELSE chunk

\* the state of the loop of processResponseChunks
Looped(result, gzipChunks) ==
  [ok |-> TRUE, error |-> <<>>, text |-> result, gzipChunks |-> gzipChunks]

RECURSIVE ChunkLoop(_, _, _)
\* the body of the loop when an error of processChunk is swallowed
ChunkLoopNext_SkipsErrors(cs, result, gzipChunks, r) ==
  ChunkLoop(Tail(cs), result \o r.text, gzipChunks)

\* the body of the loop for the result r of processChunk
ChunkLoopNext(cs, result, gzipChunks, r) ==
  IF ~r.ok THEN [ok |-> FALSE, error |-> r.error, text |-> <<>>, gzipChunks |-> <<>>]
  ELSE ChunkLoop(Tail(cs), result \o r.text, gzipChunks)

\* the loop of processResponseChunks over the chunks cs
ChunkLoop(cs, result, gzipChunks) ==
  IF cs = <<>> THEN Looped(result, gzipChunks)
  ELSE IF IsGzipChunk(Head(cs))
    THEN ChunkLoop(Tail(cs), result,
                   Append(gzipChunks, Slice(Head(cs), HeaderSize(Head(cs)) + 1)))
  ELSE ChunkLoopNext(cs, result, gzipChunks, processChunk(NonGzipInput(Head(cs))))

RECURSIVE GunzipEach(_)
\* the fallback: every gzip chunk on its own, the ones that fail skipped
GunzipEach(gzipChunks) ==
  IF gzipChunks = <<>> THEN <<>>
  ELSE (IF Gunzip(Head(gzipChunks)).ok THEN Gunzip(Head(gzipChunks)).text ELSE <<>>)
         \o GunzipEach(Tail(gzipChunks))

\* the combined attempt c, else the fallback
CombinedOrEach(gzipChunks, c) == IF c.ok THEN c.text ELSE GunzipEach(gzipChunks)

\* the text the gzip chunks add to the result
GzipText(gzipChunks) ==
  IF gzipChunks = <<>> THEN <<>>
  ELSE CombinedOrEach(gzipChunks, Gunzip(Join(gzipChunks)))

\* the end of processResponseChunks for the state l of its loop
AfterLoop(l) ==
  IF ~l.ok THEN Thrown(l.error) ELSE Returned(l.text \o GzipText(l.gzipChunks))

\* processResponseChunks(chunks): [ok |-> FALSE, error] when it throws
processResponseChunks(cs) == AfterLoop(ChunkLoop(cs, <<>>, <<>>))

\* the end of createCompletion for the result t of processResponseChunks
CompletionOfText(t) ==
  IF ~t.ok THEN ErrorOutcome("Error", t.error)
  ELSE LET c == ChatCompletions_cleanResponseText(t.text)
       IN  IF c.ok THEN CompletionOutcome(c.text) ELSE ErrorOutcome("Error", c.error)

\* createCompletion from the end of its read loop on
CompletionOf(cs) == CompletionOfText(processResponseChunks(cs))

\* 01 00 00 00 04: the first four bytes of gzip("Ok") in a frame
FrameGzHead == Headered(1, SubSeq(GzipEncode(<<79, 107>>), 1, 4))
\* 01 00 00 00 03: the rest of gzip("Ok") in a frame
FrameGzTail == Headered(1, SubSeq(GzipEncode(<<79, 107>>), 5, 7))
\* a gzip member of four data bytes, the second and third being 1f 8b, cut
\* before them into two frames: both payloads start with the gzip magic
FrameGzPartA == Headered(1, SubSeq(GzipEncode(<<65, 31, 139, 66>>), 1, 5))
FrameGzPartB == Headered(1, SubSeq(GzipEncode(<<65, 31, 139, 66>>), 6, 9))
\* 01 00 00 00 06: a gzip member of "!" whose trailer is wrong
FrameGzipBad == Headered(1, <<31, 139, 8, 1, 33, 9>>)

\* the frames the body of a non-streaming response delivers
BodyFrames == {FramePlain, FrameGzip, FrameErrFlat, FrameProto, FrameGzHead,
               FrameGzTail, FrameGzPartA, FrameGzPartB, FrameGzipBad}

\* create() is called
RequestCalled ==
  /\ params \in Requests
  /\ cpc = "called"
  /\ encodeCalls = 0 /\ postCalls = 0
  /\ chunks = <<>>
  /\ outcome = NoOutcome

\* create() up to its first await: validateParams, createHexMessage and the
\* call of client.post in createStream or createCompletion
Create ==
  /\ cpc = "called"
  /\ IF validateParams(params) # <<>>
     THEN /\ cpc' = "settled"
          /\ outcome' = ErrorOutcome("BadRequestError", validateParams(params))
          /\ UNCHANGED <<encodeCalls, postCalls>>
     ELSE /\ encodeCalls' = encodeCalls + 1
          /\ postCalls' = postCalls + 1
          /\ cpc' = "awaitPost"
          /\ UNCHANGED outcome
  /\ UNCHANGED <<params, chunks, stream, call, more>>

\* client.post resolves with a response: createStream constructs the
\* CursorStream and returns its stream, createCompletion starts to read the
\* body; both throw when the response has no body
PostResolves ==
  /\ cpc = "awaitPost"
  /\ \E hasBody \in BOOLEAN :
       IF ~hasBody
       THEN cpc' = "settled" /\ outcome' = ErrorOutcome("Error", BodyIsNull)
       ELSE IF params.stream
       THEN cpc' = "settled" /\ outcome' = StreamOutcome
       ELSE cpc' = "reading" /\ UNCHANGED outcome
  /\ UNCHANGED <<params, encodeCalls, postCalls, chunks, stream, call, more>>

\* client.post rejects
PostRejects ==
  /\ cpc = "awaitPost"
  /\ cpc' = "settled"
  /\ outcome' = ErrorOutcome("ConnectionError", NetworkError)
  /\ UNCHANGED <<params, encodeCalls, postCalls, chunks, stream, call, more>>

\* reader.read() of createCompletion resolves with a frame
ReadChunk ==
  /\ cpc = "reading"
  /\ Len(chunks) < MaxChunks
  /\ \E f \in BodyFrames : chunks' = Append(chunks, f)
  /\ UNCHANGED <<params, cpc, encodeCalls, postCalls, outcome, stream, call, more>>

\* reader.read() resolves with done: the lock is released, the chunks are
\* processed and cleaned, and createCompletion returns or throws
ReadDone ==
  /\ cpc = "reading"
  /\ cpc' = "settled"
  /\ outcome' = CompletionOf(chunks)
  /\ UNCHANGED <<params, encodeCalls, postCalls, chunks, stream, call, more>>

\* reader.read() rejects: the lock is released and createCompletion throws
ReadRejects ==
  /\ cpc = "reading"
  /\ cpc' = "settled"
  /\ outcome' = ErrorOutcome("Error", NetworkError)
  /\ UNCHANGED <<params, encodeCalls, postCalls, chunks, stream, call, more>>

CreateNext ==
  \/ Create
  \/ PostResolves
  \/ PostRejects
  \/ ReadChunk
  \/ ReadDone
  \/ ReadRejects

\* create() is called with one of the requests; no stream runs
CreateInit == StreamInit /\ RequestCalled /\ CallIdle /\ MoreIdle

CreateSpec == CreateInit /\ [][CreateNext]_vars

----------------------------------------------------------------------------
(* Properties of create() *)

\* a request that breaks a rule for requests: no list of messages or an empty
\* one, no model, a message without a role or without content, or a role
\* other than system, user and assistant
InvalidRequest(p) ==
  \/ ~p.isArray
  \/ p.messages = <<>>
  \/ p.model = <<>>
  \/ \E i \in 1..Len(p.messages) :
       \/ p.messages[i].role = ""
       \/ p.messages[i].content = <<>>
       \/ p.messages[i].role \notin Roles

\* C12: for an invalid request create() never encodes the request and never
\* calls the transport, and when it has settled it has thrown a
\* BadRequestError.
C12_ValidationFirst ==
  InvalidRequest(params) =>
    /\ encodeCalls = 0 /\ postCalls = 0
    /\ cpc = "settled" => outcome.kind = "error" /\ outcome.name = "BadRequestError"

\* create() has rejected a request whose only message has empty content,
\* with no call of the transport
C12_Witness ==
  /\ params.messages = <<Message("user", <<>>)>>
  /\ params.model = ModelName
  /\ cpc = "settled"
  /\ outcome = ErrorOutcome("BadRequestError", RoleAndContentRequired)
  /\ postCalls = 0

\* the JSON error detection fires for a frame: the frame has the header
\* 01 00 00 or 02 00 00, its payload is not gzip, and the text of the payload
\* holds a JSON object with a truthy error member that the detection finds
DetectionFires(frame) ==
  /\ HeaderSize(frame) = 5
  /\ ~IsGzip(Slice(frame, 6))
  /\ ApiErrorOf(Utf8Decode(Slice(frame, 6))) # <<>>

\* the error the detection raises for the first frame of cs it fires for
FirstDetected(cs) ==
  LET i == SetMin({j \in 1..Len(cs) : DetectionFires(cs[j])})
  IN  ApiErrorOf(Utf8Decode(Slice(cs[i], 6)))

\* C13: when createCompletion has read the whole body and the JSON error
\* detection fires for one of the frames, create() throws the error of the
\* first such frame and returns no completion.
C13_DetectedErrorAborts ==
  [][(ReadDone /\ \E i \in 1..Len(chunks) : DetectionFires(chunks[i]))
       => outcome' = ErrorOutcome("Error", FirstDetected(chunks))]_vars

\* a text frame was followed by the frame 02 00 00 00 0d {"error":"x"} and
\* create() threw 'API Error: "x"'
C13_Witness ==
  /\ chunks = <<FramePlain, FrameErrFlat>>
  /\ cpc = "settled"
  /\ outcome = ErrorOutcome("Error", ApiErrorPrefix \o <<34, 120, 34>>)

\* the text of one frame of the body: the decompressed payload of a gzip
\* frame, else what processChunk makes of the frame (of its remainder when
\* it is zero-prefixed)
FrameText(frame) ==
  IF IsGzipChunk(frame) THEN Gunzip(Slice(frame, HeaderSize(frame) + 1)).text
  ELSE processChunk(NonGzipInput(frame)).text

\* every frame of cs has a text of its own: a gzip frame holds a complete
\* gzip member, processChunk throws for no other frame
EachHasText(cs) ==
  \A i \in 1..Len(cs) :
    IF IsGzipChunk(cs[i]) THEN Gunzip(Slice(cs[i], HeaderSize(cs[i]) + 1)).ok
    ELSE processChunk(NonGzipInput(cs[i])).ok

\* the texts of the frames of cs, concatenated in the order of the frames
ArrivalOrderText(cs) == Join([i \in 1..Len(cs) |-> FrameText(cs[i])])

\* C14 as stated: when createCompletion has read a body whose frames each
\* have a text of their own, what it returns or throws is the extended clean
\* of the texts of the frames concatenated in the order the frames arrived.
C14_ArrivalOrder ==
  [][(ReadDone /\ EachHasText(chunks))
       => outcome' = CompletionOfText(Returned(ArrivalOrderText(chunks)))]_vars

\* the payload of a frame with the header 01 00 00 or 02 00 00
PayloadOf(frame) == Slice(frame, 6)

\* cs is one gzip stream cut into two headered frames: the two payloads
\* together are a gzip stream, the first one alone is not
IsSplitStream(cs) ==
  /\ Len(cs) = 2
  /\ HeaderSize(cs[1]) = 5 /\ HeaderSize(cs[2]) = 5
  /\ ~Gunzip(PayloadOf(cs[1])).ok
  /\ Gunzip(PayloadOf(cs[1]) \o PayloadOf(cs[2])).ok

\* C15 as stated: when the body is one gzip stream cut into two frames, the
\* aggregator reconstructs the text of the stream exactly: createCompletion
\* returns or throws what the extended clean makes of that text.
C15_SplitStreamReconstructed ==
  [][(ReadDone /\ IsSplitStream(chunks))
       => outcome' = CompletionOfText(
                       Gunzip(PayloadOf(chunks[1]) \o PayloadOf(chunks[2])))]_vars

----------------------------------------------------------------------------
(* parseHexResponse and processChunk called on their own *)

\* number of length-prefixed messages in an argument of parseHexResponse
MaxBlocks == 3

\* a length-prefixed message: the five bytes of its length, its bytes, the
\* msg it carries (<<>> when it has none) and whether its bytes are corrupted
Block(body, msg, corrupt) ==
  [bytes |-> <<0, 0, 0, 0, Len(body)>> \o body, msg |-> msg, corrupt |-> corrupt]

\* 0a 01 "A": field 1 is "A"
BlockA == Block(<<10, 1, 65>>, <<65>>, FALSE)
\* 0a 01 "B"
BlockB == Block(<<10, 1, 66>>, <<66>>, FALSE)
\* 0a 05: field 1 announces five bytes, none follows
BlockCut == Block(<<10, 5>>, <<>>, TRUE)
\* ff ff ff: a tag that does not end
BlockFF == Block(<<255, 255, 255>>, <<>>, TRUE)
\* a message of length zero
BlockEmpty == Block(<<>>, <<>>, FALSE)

Blocks == {BlockA, BlockB, BlockCut, BlockFF, BlockEmpty}

BlockSeqs == UNION {[1..n -> Blocks] : n \in 0..MaxBlocks}

\* the hexadecimal digits of the blocks bs one after the other
HexOfBlocks(bs) == ToHex(Join([i \in 1..Len(bs) |-> bs[i].bytes]))

\* HexOfBlocks as a table
BlockHex == [bs \in BlockSeqs |-> HexOfBlocks(bs)]

\* what can follow the last complete message: nothing, three bytes, a
\* message of three bytes ("C" as field 1) announced as five, the same
\* announced by the prefix ff ff ff ff ff
Tails ==
  {<<>>, ToHex(<<0, 0, 0>>),
   ToHex(<<0, 0, 0, 0, 5, 10, 1, 67>>),
   ToHex(<<255, 255, 255, 255, 255, 10, 1, 67>>)}

\* the arguments of parseHexResponse
HexInputs == {BlockHex[bs] \o t : bs \in BlockSeqs, t \in Tails}

\* parseHexResponse(arg) is called and returns
Call_parseHexResponse ==
  /\ fn = "none"
  /\ arg \in HexInputs
  /\ fn' = "parseHexResponse"
  /\ ret' = parseHexResponse(arg)
  /\ UNCHANGED <<arg, stream, request, more>>

\* the start of a leaked prompt: the system part and the opening of the user
\* part, <|BEGIN_SYSTEM|>s<|END_SYSTEM|><|BEGIN_USER|>
ScaffoldOpen == BEGIN_SYSTEM \o <<115>> \o END_SYSTEM \o BEGIN_USER

\* a leaked prompt: <|BEGIN_SYSTEM|>s<|END_SYSTEM|><|BEGIN_USER|>u<|END_USER|>
LeakedPrompt == ScaffoldOpen \o <<117>> \o END_USER

\* the length-prefixed message whose field 1 is the leaked prompt
BlockLeak ==
  Block(<<10, Len(LeakedPrompt)>> \o LeakedPrompt, LeakedPrompt, FALSE)

\* what a frame handed to processChunk holds after its header, when it has
\* one: "Hi", the error envelopes {"error":"x"}, {"error":{"c":"x"}} and
\* {"error":null}, the envelope a{"error":"x"}b inside a text, the cut
\* envelope {"error":"x" , the empty object, the gzip stream of "Ok", a gzip
\* stream with a wrong trailer, the bare gzip magic, one and two
\* length-prefixed messages, a corrupted length-prefixed message, the end of
\* a leaked user prompt followed by "Hi", a leaked prompt as text, as a gzip
\* stream and as a length-prefixed message, and nothing
ChunkBodies ==
  {<<72, 105>>,
   <<123,34,101,114,114,111,114,34,58,34,120,34,125>>,
   <<123,34,101,114,114,111,114,34,58,123,34,99,34,58,34,120,34,125,125>>,
   <<123,34,101,114,114,111,114,34,58,110,117,108,108,125>>,
   <<97,123,34,101,114,114,111,114,34,58,34,120,34,125,98>>,
   <<123,34,101,114,114,111,114,34,58,34,120,34>>,
   Braces,
   GzipEncode(<<79, 107>>),
   <<31, 139, 8, 1, 33, 9>>,
   <<31, 139>>,
   BlockA.bytes,
   BlockA.bytes \o BlockB.bytes,
   BlockCut.bytes,
   END_USER \o <<72, 105>>,
   LeakedPrompt,
   GzipEncode(LeakedPrompt),
   BlockLeak.bytes,
   <<>>}

\* the arguments of processChunk: a body on its own, and after a header that
\* starts 01 00 00, 02 00 00 or 03 00 00
ChunkInputs ==
  ChunkBodies \cup {Headered(first, b) : first \in {1, 2, 3}, b \in ChunkBodies}

\* processChunk(arg) is called and settles
Call_processChunk ==
  /\ fn = "none"
  /\ arg \in ChunkInputs
  /\ fn' = "processChunk"
  /\ ret' = processChunk(arg)
  /\ UNCHANGED <<arg, stream, request, more>>

\* number of pieces a text handed to cleanResponseText is made of
MaxPieces == 4

\* the pieces of the texts: "Hi", "{}", a space, a newline, the letter A, the
\* end marker of the user part, and the start of a leaked prompt
Pieces == {<<72, 105>>, Braces, <<32>>, <<10>>, <<65>>, END_USER, ScaffoldOpen}

\* the arguments of cleanResponseText: up to MaxPieces pieces in a row
CleanInputs ==
  {Join(ps) : ps \in UNION {[1..n -> Pieces] : n \in 0..MaxPieces}}

\* cleanResponseText(arg) is called and returns
Call_cleanResponseText ==
  /\ fn = "none"
  /\ arg \in CleanInputs
  /\ fn' = "cleanResponseText"
  /\ ret' = cleanResponseText(arg)
  /\ UNCHANGED <<arg, stream, request, more>>

\* a function is about to be called with one of its arguments
CallInit ==
  /\ StreamInit /\ RequestStreamed /\ MoreIdle
  /\ fn = "none" /\ arg \in HexInputs \cup ChunkInputs \cup CleanInputs
  /\ ret = <<>>

CallNext ==
  \/ Call_parseHexResponse
  \/ Call_processChunk
  \/ Call_cleanResponseText

CallSpec == CallInit /\ [][CallNext]_vars

----------------------------------------------------------------------------
(* Properties of parseHexResponse *)

\* the msg strings of the blocks bs that carry one, in order
MsgsOf(bs) ==
  LET carrying == SelectSeq(bs, LAMBDA b : b.msg # <<>>)
  IN  [i \in 1..Len(carrying) |-> carrying[i].msg]

HasCorrupt(bs) == \E i \in 1..Len(bs) : bs[i].corrupt

\* C16: for complete length-prefixed messages of which at least one is
\* corrupted, parseHexResponse returns the msg strings of the messages that
\* are not, in order, those after the corrupted one included.
C16_CorruptedMessageSkipped ==
  fn = "parseHexResponse" =>
    \A bs \in BlockSeqs :
      (arg = BlockHex[bs] /\ HasCorrupt(bs)) => ret = MsgsOf(bs)

\* "A", a corrupted message and "B" gave "A" and "B"
C16_Witness ==
  /\ fn = "parseHexResponse"
  /\ arg = HexOfBlocks(<<BlockA, BlockCut, BlockB>>)
  /\ ret = <<<<65>>, <<66>>>>

\* C17: when what follows the complete messages is fewer than five bytes or
\* a message whose declared length exceeds the bytes that remain,
\* parseHexResponse returns the msg strings of the complete messages, in
\* order, and nothing else.
C17_StopsAtIncomplete ==
  fn = "parseHexResponse" =>
    \A bs \in BlockSeqs : \A t \in Tails \ {<<>>} :
      arg = BlockHex[bs] \o t => ret = MsgsOf(bs)

\* "A" and "B" followed by a message cut short gave "A" and "B"
C17_Witness ==
  /\ fn = "parseHexResponse"
  /\ arg = HexOfBlocks(<<BlockA, BlockB>>) \o ToHex(<<0, 0, 0, 0, 5, 10, 1, 67>>)
  /\ ret = <<<<65>>, <<66>>>>

----------------------------------------------------------------------------
(* Properties of processChunk *)

\* the indices of text where a JSON object with a truthy member error starts
ErrorObjectsIn(text) ==
  {i \in 1..Len(text) :
     /\ text[i] = 123
     /\ JMembers(text, i + 1).next # 0
     /\ Truthy(ErrorMember(text, JMembers(text, i + 1).mem))}

\* the message of the protocol error for the first JSON object with a truthy
\* member error that text holds, <<>> when it holds none
EmbeddedError(text) ==
  IF ErrorObjectsIn(text) = {} THEN <<>>
  ELSE ApiErrorPrefix \o
         JsonStringify(ErrorMember(text,
                         JMembers(text, SetMin(ErrorObjectsIn(text)) + 1).mem))

\* arg is a frame with a header whose payload is not gzip
IsHeaderedText(chunk) ==
  /\ Len(chunk) > 5
  /\ chunk[1] \in {1, 2} /\ chunk[2] = 0 /\ chunk[3] = 0
  /\ ~(Len(chunk) >= 7 /\ chunk[6] = 31 /\ chunk[7] = 139)

\* C18 as stated: for a frame with a header whose payload is not gzip,
\* processChunk throws "API Error: " followed by the serialized error member
\* when the text of the payload holds a JSON object with an error member,
\* and returns the cleaned text otherwise.
C18_HeaderedTextError ==
  (fn = "processChunk" /\ IsHeaderedText(arg)) =>
    ret = IF EmbeddedError(PayloadText(arg)) # <<>>
          THEN Thrown(EmbeddedError(PayloadText(arg)))
          ELSE Returned(cleanResponseText(PayloadText(arg)))

\* the bytes processChunk hands to gunzip: the payload of a frame of more
\* than five bytes with a header, else the frame itself
GzipBytes(chunk) ==
  IF Len(chunk) > 5 /\ chunk[1] \in {1, 2} /\ chunk[2] = 0 /\ chunk[3] = 0
  THEN Slice(chunk, 6) ELSE chunk

\* C19: when the bytes processChunk hands to gunzip start with the gzip
\* magic and gunzip fails on them, processChunk returns the empty string and
\* does not throw.
C19_GunzipFailureIsEmpty ==
  (/\ fn = "processChunk"
   /\ IsGzip(GzipBytes(arg))
   /\ ~Gunzip(GzipBytes(arg)).ok)
    => ret = Returned(<<>>)

\* a frame with a header and a gzip payload whose trailer is wrong gave ""
C19_Witness ==
  /\ fn = "processChunk"
  /\ arg = Headered(1, <<31, 139, 8, 1, 33, 9>>)
  /\ ret = Returned(<<>>)

\* the kind of a frame by the decision order: a header on a chunk of more
\* than five bytes, else the gzip magic, else length-prefixed messages that
\* can be recovered, else plain text
KindOf(chunk) ==
  IF Len(chunk) > 5 /\ chunk[1] \in {1, 2} /\ chunk[2] = 0 /\ chunk[3] = 0
  THEN (IF IsGzip(Slice(chunk, 6)) THEN "headered-gzip" ELSE "headered-text")
  ELSE IF IsGzip(chunk) THEN "bare-gzip"
  ELSE IF parseHexResponse(ToHex(chunk)) # <<>> THEN "bare-protocol"
  ELSE "plain-text"

\* what processChunk gives for a frame handled as the kind k
HandledAs(k, chunk) ==
  CASE k = "headered-gzip" -> GunzipAndClean(Gunzip(Slice(chunk, 6)))
    [] k = "headered-text" ->
         HeaderedText(PayloadText(chunk), ApiErrorOf(PayloadText(chunk)))
    [] k = "bare-gzip" -> GunzipAndClean(Gunzip(chunk))
    [] k = "bare-protocol" -> Returned(Join(parseHexResponse(ToHex(chunk))))
    [] k = "plain-text" -> Returned(cleanResponseText(Utf8Decode(chunk)))

\* C20: processChunk handles every frame as the one kind the decision order
\* gives it: header first, then gzip magic, then length-prefixed messages
\* whose texts are concatenated, then plain text.
C20_DecisionOrder ==
  fn = "processChunk" => ret = HandledAs(KindOf(arg), arg)

\* two length-prefixed messages "A" and "B" without a header gave "AB"
C20_Witness ==
  /\ fn = "processChunk"
  /\ arg = BlockA.bytes \o BlockB.bytes
  /\ ret = Returned(<<65, 66>>)

----------------------------------------------------------------------------
(* protobufjs Writer, convertToCursorFormat, encodeChatMessage,
   createHexMessage *)

\* the instruction convertToCursorFormat always sends
Instruction == <<65,108,119,97,121,115,32,114,101,115,112,111,110,100,32,105,110,32,116,104,101,32,117,115,101,114,39,115,32,112,114,101,102,101,114,114,101,100,32,108,97,110,103,117,97,103,101>>
\* "/cursor-sdk-project"
ProjectPath == <<47,99,117,114,115,111,114,45,115,100,107,45,112,114,111,106,101,99,116>>

\* the UTF-8 bytes of one character: one byte for ASCII, two up to U+07FF,
\* three for the rest of the basic plane (the model has no surrogates)
Utf8Char(c) ==
  IF c < 128 THEN <<c>>
  ELSE IF c < 2048 THEN <<192 + (c \div 64), 128 + (c % 64)>>
  ELSE <<224 + (c \div 4096), 128 + ((c \div 64) % 64), 128 + (c % 64)>>

RECURSIVE Utf8Encode(_)
\* utf8.write: the UTF-8 bytes of a string, the characters' bytes one after
\* the other (computed by halves)
Utf8Encode(text) ==
  IF text = <<>> THEN <<>>
  ELSE IF Len(text) = 1 THEN Utf8Char(text[1])
  ELSE Utf8Encode(SubSeq(text, 1, Len(text) \div 2))
       \o Utf8Encode(Slice(text, Len(text) \div 2 + 1))

RECURSIVE WriteVarint(_)
\* Writer.uint32 and, for a value that is not negative, Writer.int32: seven
\* bits a byte, the low ones first, the high bit set on all but the last
WriteVarint(n) ==
  IF n < 128 THEN <<n>> ELSE <<128 + (n % 128)>> \o WriteVarint(n \div 128)

\* Writer.bytes: the length, then the bytes
WriteBytes(bytes) == WriteVarint(Len(bytes)) \o bytes

\* Writer.string: the length of the UTF-8 form, then the UTF-8 form
WriteString(text) == WriteBytes(Utf8Encode(text))

\* role: msg.role === 'user' ? 1 : 2
CursorRole(role) == IF role = "user" THEN 1 ELSE 2

\* convertToCursorFormat: ids are the values of the calls of uuidv4, one for
\* every message in order, then the request and the conversation
convertToCursorFormat(messages, modelName, ids) ==
  [messages |-> [i \in 1..Len(messages) |->
                   [content |-> messages[i].content,
                    role |-> CursorRole(messages[i].role),
                    messageId |-> ids[i]]],
   instruction |-> Instruction,
   projectPath |-> ProjectPath,
   modelName |-> modelName,
   modelEmpty |-> <<>>,
   requestId |-> ids[Len(messages) + 1],
   summary |-> <<>>,
   conversationId |-> ids[Len(messages) + 2]]

\* the writer of one message: content (field 1), role (field 2) and
\* messageId (field 13)
EncodeUserMessage(msg) ==
  <<10>> \o WriteString(msg.content)
  \o <<16>> \o WriteVarint(msg.role)
  \o <<106>> \o WriteString(msg.messageId)

\* what the loop over the messages writes for one of them: the tag of field 2
\* and the length of a fork that is closed at once, which is 0, then the tag
\* of field 2 and the bytes of the message
EncodeMessageEntry(msg) ==
  <<18>> \o WriteVarint(0) \o <<18>> \o WriteBytes(EncodeUserMessage(msg))

\* encodeChatMessage of a message in which no field is null
encodeChatMessage(m) ==
  Join([i \in 1..Len(m.messages) |-> EncodeMessageEntry(m.messages[i])])
  \o <<34>> \o WriteBytes(<<10>> \o WriteString(m.instruction))
  \o <<42>> \o WriteString(m.projectPath)
  \o <<58>> \o WriteBytes(<<10>> \o WriteString(m.modelName)
                         \o <<34>> \o WriteString(m.modelEmpty))
  \o <<74>> \o WriteString(m.requestId)
  \o <<90>> \o WriteString(m.summary)
  \o <<122>> \o WriteString(m.conversationId)

RECURSIVE HexDigits(_)
\* Number.prototype.toString(16), as digits 0..15
HexDigits(n) ==
  IF n < 16 THEN <<n>> ELSE Append(HexDigits(n \div 16), n % 16)

\* String.prototype.padStart(width, '0') of a string of digits
PadStart(digits, width) ==
  [i \in 1..(width - Len(digits)) |-> 0] \o digits

\* the header with four digits for two bytes
LengthPrefix_TwoBytes(buffer) == PadStart(HexDigits(Len(buffer)), 4)

\* buffer.length.toString(16).padStart(10, '0')
LengthPrefix(buffer) == PadStart(HexDigits(Len(buffer)), 10)

\* the buffer createHexMessage makes of the encoded message: toUpperCase
\* changes no digit's value, and Buffer.from(hexString, 'hex') reads the
\* digits two by two
HexMessageOf(buffer) == FromHex(LengthPrefix(buffer) \o ToHex(buffer))

createHexMessage(messages, modelName, ids) ==
  HexMessageOf(encodeChatMessage(convertToCursorFormat(messages, modelName, ids)))

----------------------------------------------------------------------------
(* createHexMessage called on its own *)

\* two values of uuidv4
UuidA == <<49,49,49,49,49,49,49,49,45,49,49,49,49,45,52,49,49,49,45,56,49,49,49,45,49,49,49,49,49,49,49,49,49,49,49,49>>
UuidB == <<50,50,50,50,50,50,50,50,45,50,50,50,50,45,52,50,50,50,45,57,50,50,50,45,50,50,50,50,50,50,50,50,50,50,50,50>>

\* a content of 130 letters, whose encoded length takes two bytes
LongContent == [i \in 1..130 |-> 97]

\* the contents of the messages: "hi", U+00E9, which has two bytes in UTF-8,
\* and the long one
EncContents == {<<104, 105>>, <<233>>, LongContent}

EncMessages == {Message(r, c) : r \in Roles, c \in EncContents}

\* the valid message lists: one message at least
EncMessageLists == UNION {[1..n -> EncMessages] : n \in 1..MaxMessages}

\* "gpt-4o" and "m"
EncModels == {ModelName, <<109>>}

\* what the calls of uuidv4 return: the same value every time, or two values
\* in turn
IdPatterns == {<<UuidA, UuidA>>, <<UuidA, UuidB>>}
IdsOf(pattern, n) == [i \in 1..n |-> pattern[1 + (i % 2)]]

\* the arguments of createHexMessage with the values of uuidv4
EncInputs ==
  {[messages |-> ms, model |-> m, ids |-> IdsOf(p, Len(ms) + 2)] :
     ms \in EncMessageLists, m \in EncModels, p \in IdPatterns}

\* createHexMessage(messages, model) is called and returns
Call_createHexMessage ==
  /\ encPc = "calling"
  /\ encPc' = "returned"
  /\ encRet' = createHexMessage(encArgs.messages, encArgs.model, encArgs.ids)
  /\ UNCHANGED <<encArgs, stream, request, call, transport, pair, loop>>

\* createHexMessage is about to be called with valid arguments
EncodeInit ==
  /\ StreamInit /\ RequestStreamed /\ CallIdle /\ TransportIdle /\ PairIdle
  /\ LoopIdle
  /\ encPc = "calling" /\ encArgs \in EncInputs /\ encRet = <<>>

EncodeNext == Call_createHexMessage

EncodeSpec == EncodeInit /\ [][EncodeNext]_vars

----------------------------------------------------------------------------
(* Properties of createHexMessage *)

RECURSIVE Utf8ReadFrom(_)
\* the characters of UTF-8 bytes from the first byte on; a byte that starts
\* no character reads as U+FFFD
Utf8ReadFrom(b) ==
  IF b = <<>> THEN <<>>
  ELSE IF b[1] < 128 THEN <<b[1]>> \o Utf8ReadFrom(Tail(b))
  ELSE IF b[1] >= 192 /\ b[1] < 224 /\ Len(b) >= 2
    THEN <<(b[1] - 192) * 64 + (b[2] - 128)>> \o Utf8ReadFrom(Slice(b, 3))
  ELSE IF b[1] >= 224 /\ b[1] < 240 /\ Len(b) >= 3
    THEN <<(b[1] - 224) * 4096 + (b[2] - 128) * 64 + (b[3] - 128)>>
         \o Utf8ReadFrom(Slice(b, 4))
  ELSE <<65533>> \o Utf8ReadFrom(Tail(b))

\* a byte that is not a continuation byte
IsLeadByte(x) == x < 128 \/ x >= 192

RECURSIVE Utf8Read(_)
\* the characters of UTF-8 bytes, computed by halves that are cut where a
\* character starts
Utf8Read(b) ==
  LET leads == {i \in (Len(b) \div 2 + 1)..Len(b) : IsLeadByte(b[i])}
  IN  IF Len(b) <= 4 \/ leads = {} THEN Utf8ReadFrom(b)
      ELSE Utf8Read(SubSeq(b, 1, SetMin(leads) - 1))
           \o Utf8Read(Slice(b, SetMin(leads)))

\* a length-delimited field at pos: its bytes and the position after it
MirrorBytes(buf, pos) ==
  LET l == Uint32(buf, pos)
  IN  IF ~l.ok \/ l.high > 0 \/ l.pos + l.value > Len(buf)
      THEN [ok |-> FALSE, bytes |-> <<>>, pos |-> pos]
      ELSE [ok |-> TRUE, pos |-> l.pos + l.value,
            bytes |-> SubSeq(buf, l.pos + 1, l.pos + l.value)]

\* the role names of the numbers of the schema: 1 = user, 2 = assistant
RoleOfCursor(n) == IF n = 1 THEN "user" ELSE IF n = 2 THEN "assistant" ELSE ""

MirrorFail == [ok |-> FALSE]

RECURSIVE MirrorUserMessage(_, _, _)
\* the mirror of EncodeUserMessage: content is field 1, role field 2
MirrorUserMessage(buf, pos, msg) ==
  IF pos >= Len(buf) THEN [ok |-> TRUE, msg |-> msg]
  ELSE
    LET tag == Uint32(buf, pos)
    IN  IF ~tag.ok \/ tag.high > 0 THEN MirrorFail
        ELSE IF tag.value = 10
        THEN LET r == MirrorBytes(buf, tag.pos)
             IN  IF ~r.ok THEN MirrorFail
                 ELSE MirrorUserMessage(buf, r.pos,
                        [msg EXCEPT !.content = Utf8Read(r.bytes)])
        ELSE IF tag.value = 16
        THEN LET r == Uint32(buf, tag.pos)
             IN  IF ~r.ok THEN MirrorFail
                 ELSE MirrorUserMessage(buf, r.pos,
                        [msg EXCEPT !.role = RoleOfCursor(r.value)])
        ELSE LET r == SkipType(buf, tag.pos, tag.value % 8)
             IN  IF ~r.ok THEN MirrorFail ELSE MirrorUserMessage(buf, r.pos, msg)

RECURSIVE MirrorModel(_, _, _)
\* the mirror of the writer of the model: name is field 1
MirrorModel(buf, pos, name) ==
  IF pos >= Len(buf) THEN [ok |-> TRUE, name |-> name]
  ELSE
    LET tag == Uint32(buf, pos)
    IN  IF ~tag.ok \/ tag.high > 0 THEN MirrorFail
        ELSE IF tag.value = 10
        THEN LET r == MirrorBytes(buf, tag.pos)
             IN  IF ~r.ok THEN MirrorFail
                 ELSE MirrorModel(buf, r.pos, Utf8Read(r.bytes))
        ELSE LET r == SkipType(buf, tag.pos, tag.value % 8)
             IN  IF ~r.ok THEN MirrorFail ELSE MirrorModel(buf, r.pos, name)

\* what a decoder adds for one occurrence of field 2
MirrorAddMessage(d, m) ==
  IF ~m.ok THEN MirrorFail ELSE [d EXCEPT !.messages = Append(@, m.msg)]

\* what a decoder does with field 7
MirrorSetModel(d, m) ==
  IF ~m.ok THEN MirrorFail ELSE [d EXCEPT !.model = m.name]

RECURSIVE MirrorChat(_, _, _)
\* the mirror of encodeChatMessage: messages is the repeated field 2, model
\* field 7; a decoder adds one message for every occurrence of field 2
MirrorChat(buf, pos, d) ==
  IF ~d.ok \/ pos >= Len(buf) THEN d
  ELSE
    LET tag == Uint32(buf, pos)
    IN  IF ~tag.ok \/ tag.high > 0 THEN MirrorFail
        ELSE IF tag.value = 18
        THEN LET r == MirrorBytes(buf, tag.pos)
             IN  IF ~r.ok THEN MirrorFail
                 ELSE MirrorChat(buf, r.pos,
                        MirrorAddMessage(d,
                          MirrorUserMessage(r.bytes, 0, Message("", <<>>))))
        ELSE IF tag.value = 58
        THEN LET r == MirrorBytes(buf, tag.pos)
             IN  IF ~r.ok THEN MirrorFail
                 ELSE MirrorChat(buf, r.pos,
                        MirrorSetModel(d, MirrorModel(r.bytes, 0, <<>>)))
        ELSE LET r == SkipType(buf, tag.pos, tag.value % 8)
             IN  IF ~r.ok THEN MirrorFail ELSE MirrorChat(buf, r.pos, d)

\* the decoded form of a payload
MirrorDecode(payload) ==
  MirrorChat(payload, 0, [ok |-> TRUE, messages |-> <<>>, model |-> <<>>])

\* C21: the payload of the buffer createHexMessage returned for valid
\* arguments, decoded by the mirror decoder, has one message for every
\* message of the arguments, in their order, with the same content and the
\* same role, and the same model name
C21_RoundTrip ==
  encPc = "returned" =>
    LET d == MirrorDecode(Slice(encRet, 6))
    IN  /\ d.ok
        /\ d.model = encArgs.model
        /\ d.messages = encArgs.messages

\* C22: the buffer createHexMessage returned is five bytes that are the
\* big-endian count of the bytes of the encoded message, followed by the
\* encoded message and nothing else
C22_LengthHeader ==
  encPc = "returned" =>
    LET payload ==
          encodeChatMessage(
            convertToCursorFormat(encArgs.messages, encArgs.model, encArgs.ids))
    IN  /\ Len(encRet) = Len(payload) + 5
        /\ Slice(encRet, 6) = payload
        /\ encRet[1] = 0 /\ encRet[2] = 0
        /\ (encRet[3] * 256 + encRet[4]) * 256 + encRet[5] = Len(payload)

\* a buffer was returned for an encoded message of more than 255 bytes, whose
\* count takes two bytes of the header
C22_Witness ==
  /\ encPc = "returned"
  /\ Len(encRet) > 260
  /\ encRet[4] > 0 /\ encRet[5] > 0

----------------------------------------------------------------------------
(* APIClient.request *)

\* largest maxRetries of a client
MaxRetries == 2

\* "Request timed out"
RequestTimedOut == <<82,101,113,117,101,115,116,32,116,105,109,101,100,32,111,117,116>>
\* "Request failed: "
RequestFailedPrefix == <<82,101,113,117,101,115,116,32,102,97,105,108,101,100,58,32>>
\* "fetch failed", the message of the TypeError of a network failure
FetchFailed == <<102,101,116,99,104,32,102,97,105,108,101,100>>
\* "The operation was aborted."
OperationAborted == <<84,104,101,32,111,112,101,114,97,116,105,111,110,32,119,97,115,32,97,98,111,114,116,101,100,46>>
\* "undefined", what a template literal makes of a missing message
UndefinedText == <<117,110,100,101,102,105,110,101,100>>
\* "err", the text of the body of a response that is not ok
ErrText == <<101,114,114>>

\* the classes that extend CursorError
CursorErrorClasses ==
  {"APIError", "BadRequestError", "AuthenticationError", "PermissionDeniedError",
   "NotFoundError", "RateLimitError", "InternalServerError", "ConnectionError",
   "TimeoutError"}

\* error instanceof CursorError
IsCursorError(e) == e.class \in CursorErrorClasses

\* an error of a class whose name field is the class name
CursorErrorOf(class, status, message, at) ==
  ErrorValue(class, class, status, message, at)

\* CursorError.fromResponse(response, message) for a response of that
\* status, made in the attempt at
fromResponse(status, message, at) ==
  IF status = 400 THEN CursorErrorOf("BadRequestError", 400, message, at)
  ELSE IF status = 401 THEN CursorErrorOf("AuthenticationError", 401, message, at)
  ELSE IF status = 403 THEN CursorErrorOf("PermissionDeniedError", 403, message, at)
  ELSE IF status = 404 THEN CursorErrorOf("NotFoundError", 404, message, at)
  ELSE IF status = 429 THEN CursorErrorOf("RateLimitError", 429, message, at)
  ELSE IF status >= 500 THEN CursorErrorOf("InternalServerError", 500, message, at)
  ELSE CursorErrorOf("APIError", status, message, at)

\* response.ok
IsOk(status) == status >= 200 /\ status <= 299

\* the statuses of the responses of the backend
Statuses == {200, 302, 400, 401, 403, 404, 418, 429, 500, 503}

\* what fetch rejects with: the DOMException of an abort, the TypeError of a
\* network failure, a value that is no Error ('x')
Rejections == {"AbortError", "TypeError", "string"}

\* the value fetch rejected with, as an error value
RejectionValue(kind, at) ==
  IF kind = "AbortError" THEN ErrorValue("DOMException", "AbortError", 0, OperationAborted, at)
  ELSE IF kind = "TypeError" THEN ErrorValue("TypeError", "TypeError", 0, FetchFailed, at)
  ELSE ErrorValue("string", "", 0, UndefinedText, at)

\* how a call of fetch settled: with a response of a status, whose text()
\* gives "err" or rejects, or with a rejection
FetchResponse(status, textFails) ==
  [kind |-> "response", status |-> status, textFails |-> textFails, rejection |-> ""]
FetchRejection(kind) ==
  [kind |-> "rejection", status |-> 0, textFails |-> FALSE, rejection |-> kind]

\* await response.text().catch(() => 'Unknown error')
ErrorTextOf(fetched) == IF fetched.textFails THEN UnknownError ELSE ErrText

\* what the try block throws for a call of fetch that did not give an ok
\* response
ThrownFor(fetched, at) ==
  IF fetched.kind = "response"
  THEN fromResponse(fetched.status, ErrorTextOf(fetched), at)
  ELSE RejectionValue(fetched.rejection, at)

\* the test with 400 in the place of 500: no retry below 400 only
NoRetry_Below400(error) ==
  IsCursorError(error) /\ error.status # 0 /\ error.status < 400

\* error instanceof CursorError && error.status && error.status < 500
NoRetry(error) ==
  IsCursorError(error) /\ error.status # 0 /\ error.status < 500

\* a wait of one second after every attempt
BackoffMs_Fixed(a) == 1000

\* Math.pow(2, attempt) * 1000
BackoffMs(a) == (2 ^ a) * 1000

\* the test one attempt early
IsLastAttempt_Early(a, n) == a + 1 >= n

\* attempt === this.maxRetries
IsLastAttempt(a, n) == a = n

\* what follows the loop without the test of the name
AfterLoop_request_NoTimeout(last) ==
  IF last = NoError THEN CursorErrorOf("APIError", 0, <<>>, 0)
  ELSE IF IsCursorError(last) THEN last
  ELSE CursorErrorOf("ConnectionError", 0, RequestFailedPrefix \o last.message, 0)

\* what request() throws after the loop, for the value of lastError
AfterLoop_request(last) ==
  IF last = NoError
  THEN CursorErrorOf("APIError", 0, <<>>, 0)
  ELSE IF last.name = "AbortError"
  THEN CursorErrorOf("TimeoutError", 0, RequestTimedOut, 0)
  ELSE IF IsCursorError(last) THEN last
  ELSE CursorErrorOf("ConnectionError", 0, RequestFailedPrefix \o last.message, 0)

\* the catch block for the error thrown in the attempt: a client error is
\* thrown on, the last attempt ends the loop and request() throws, and
\* otherwise the backoff sleep begins
Catch(error) ==
  /\ lastError' = error
  /\ IF NoRetry(error)
     THEN rpc' = "rejected" /\ settled' = RejectedWith(error) /\ UNCHANGED sleeps
     ELSE IF IsLastAttempt(attempt, maxRetries)
     THEN /\ rpc' = "rejected"
          /\ settled' = RejectedWith(AfterLoop_request(error))
          /\ UNCHANGED sleeps
     ELSE /\ rpc' = "sleeping"
          /\ sleeps' = Append(sleeps, BackoffMs(attempt))
          /\ UNCHANGED settled

\* options.timeout ?? this.timeout, for a client with the default timeout
TimeoutDelay(timeout) == IF timeout = Undefined THEN DefaultTimeout ELSE timeout

\* setTimeout(() => controller.abort(), options.timeout ?? this.timeout): the
\* timer of an attempt, pending until it is cleared or fires
NewTimer == [state |-> "pending", delay |-> TimeoutDelay(optTimeout)]

\* signal: options.signal ?? controller.signal
FetchSignal(given) == IF given THEN "options" ELSE "controller"

\* clearTimeout(timeoutId) for the timer of the attempt in flight: a timer
\* that has fired stays as it is
ClearTimer ==
  [timers EXCEPT ![attempt + 1].state = IF @ = "pending" THEN "cleared" ELSE @]

\* the call of fetch of the attempt resolves with a response: the timer is
\* cleared before the response is looked at.  A call whose signal was aborted
\* does not resolve.
FetchResolves ==
  /\ rpc = "fetching"
  /\ ~fetchAborted
  /\ timers' = ClearTimer
  /\ \E status \in Statuses, textFails \in BOOLEAN :
       /\ IsOk(status) => ~textFails
       /\ fetchLog' = Append(fetchLog, FetchResponse(status, textFails))
       /\ IF IsOk(status)
          THEN /\ rpc' = "resolved" /\ settled' = ResolvedWith
               /\ UNCHANGED <<lastError, sleeps>>
          ELSE Catch(ThrownFor(FetchResponse(status, textFails), attempt + 1))
  /\ UNCHANGED <<maxRetries, attempt, fetchCalls, signalGiven, optTimeout,
                 fetchAborted, stream, request, call, encode, pair, loop>>

\* the call of fetch of the attempt rejects: with an AbortError when its
\* signal was aborted, which the caller can do to a signal of its own at any
\* time, and with something else only when it was not.  The catch block does
\* not touch the timer.
FetchRejects ==
  /\ rpc = "fetching"
  /\ \E kind \in Rejections :
       /\ kind = "AbortError" => (fetchAborted \/ signalGiven)
       /\ fetchAborted => kind = "AbortError"
       /\ fetchLog' = Append(fetchLog, FetchRejection(kind))
       /\ Catch(ThrownFor(FetchRejection(kind), attempt + 1))
  /\ UNCHANGED <<maxRetries, attempt, fetchCalls, signalGiven, optTimeout,
                 timers, fetchAborted, stream, request, call, encode, pair,
                 loop>>

\* the delay of the timer of attempt i (counted from 1) has elapsed: it calls
\* controller.abort() of its attempt, which aborts the call of fetch of that
\* attempt when it is in flight and was handed the signal of the controller
TimerFiresOf(i) ==
  /\ timers[i].state = "pending"
  /\ timers' = [timers EXCEPT ![i].state = "fired"]
  /\ fetchAborted' = IF /\ rpc = "fetching" /\ i = attempt + 1
                        /\ FetchSignal(signalGiven) = "controller"
                     THEN TRUE ELSE fetchAborted
  /\ UNCHANGED <<maxRetries, attempt, rpc, lastError, fetchCalls, fetchLog,
                 sleeps, settled, signalGiven, optTimeout, stream, request,
                 call, encode, pair, loop>>

TimerFires == \E i \in 1..Len(timers) : TimerFiresOf(i)

\* the sleep between two attempts ends: attempt++, a new controller with its
\* timer, and the next call of fetch
SleepEnds ==
  /\ rpc = "sleeping"
  /\ attempt' = attempt + 1
  /\ rpc' = "fetching"
  /\ fetchCalls' = fetchCalls + 1
  /\ timers' = Append(timers, NewTimer)
  /\ fetchAborted' = FALSE
  /\ UNCHANGED <<maxRetries, lastError, fetchLog, sleeps, settled, signalGiven,
                 optTimeout, stream, request, call, encode, pair, loop>>

\* options.timeout of the calls: not given, 0 and one second
Timeouts == {Undefined, 0, 1000}

\* request() was called on a client and awaits its first call of fetch, for
\* which it has started the timer
RequestInit ==
  /\ StreamInit /\ RequestStreamed /\ CallIdle /\ EncodeIdle /\ PairIdle
  /\ LoopIdle
  /\ maxRetries \in 0..MaxRetries
  /\ attempt = 0 /\ rpc = "fetching" /\ lastError = NoError
  /\ fetchCalls = 1 /\ fetchLog = <<>> /\ sleeps = <<>> /\ settled = Pending
  /\ signalGiven \in BOOLEAN
  /\ optTimeout \in Timeouts
  /\ timers = <<NewTimer>>
  /\ fetchAborted = FALSE

RequestNext ==
  \/ FetchResolves
  \/ FetchRejects
  \/ TimerFires
  \/ SleepEnds

RequestSpec == RequestInit /\ [][RequestNext]_vars

----------------------------------------------------------------------------
(* Properties of APIClient.request *)

\* the call of fetch settled with a response of a status from lo to hi
HasStatus(fetched, lo, hi) ==
  fetched.kind = "response" /\ fetched.status >= lo /\ fetched.status <= hi

\* every call of fetch so far was answered with a server error
AllServerErrors ==
  \A i \in 1..Len(fetchLog) : HasStatus(fetchLog[i], 500, 599)

\* C23: request() never calls fetch more than maxRetries + 1 times, and when
\* it rejects after every call of fetch was answered with a 5xx status it has
\* called fetch exactly maxRetries + 1 times
C23_RetriesServerErrors ==
  /\ fetchCalls <= maxRetries + 1
  /\ (rpc = "rejected" /\ AllServerErrors) => fetchCalls = maxRetries + 1

\* a client with maxRetries = 2 rejected after three server errors
C23_Witness ==
  /\ rpc = "rejected" /\ maxRetries = 2
  /\ AllServerErrors
  /\ fetchCalls = 3 /\ Len(fetchLog) = 3

\* C24: a response with a 4xx status is the last thing request() fetches:
\* request() has rejected with the CursorError made of that response, which
\* carries its status, and has not called fetch again; when it is the first
\* response, fetch was called exactly once
C24_ClientErrorsNotRetried ==
  \A i \in 1..Len(fetchLog) :
    HasStatus(fetchLog[i], 400, 499) =>
      /\ i = Len(fetchLog) /\ fetchCalls = i
      /\ rpc = "rejected"
      /\ settled.kind = "error"
      /\ IsCursorError(settled.error)
      /\ settled.error.status = fetchLog[i].status
      /\ settled.error.at = i

\* a client with maxRetries = 2 rejected after one call of fetch, which was
\* answered with a 4xx status
C24_Witness ==
  /\ maxRetries = 2 /\ rpc = "rejected"
  /\ fetchCalls = 1 /\ Len(fetchLog) = 1
  /\ HasStatus(fetchLog[1], 400, 499)

\* C25: when request() has rejected, the last call of fetch decides with
\* what: TimeoutError('Request timed out') when it rejected with an
\* AbortError, the CursorError made of its response when it was answered with
\* a response, and a ConnectionError otherwise
C25_RejectionByLastFailure ==
  rpc = "rejected" =>
    LET last == fetchLog[Len(fetchLog)]
    IN  /\ settled.kind = "error"
        /\ IF last.kind = "rejection" /\ last.rejection = "AbortError"
           THEN /\ settled.error.class = "TimeoutError"
                /\ settled.error.message = RequestTimedOut
           ELSE IF last.kind = "response"
           THEN /\ IsCursorError(settled.error)
                /\ settled.error.at = Len(fetchLog)
                /\ settled.error = lastError
           ELSE settled.error.class = "ConnectionError"

\* request() rejected with a TimeoutError after a server error and an abort
C25_Witness ==
  /\ rpc = "rejected" /\ Len(fetchLog) = 2
  /\ HasStatus(fetchLog[1], 500, 599)
  /\ fetchLog[2] = FetchRejection("AbortError")
  /\ settled.error.class = "TimeoutError"

----------------------------------------------------------------------------
(* Properties of the validation of create() *)

\* create() is past validateParams
Validated == cpc # "called"

\* C26: once create() is past its validation, it has thrown a BadRequestError
\* without encoding the request if the messages are no list or an empty
\* list, the model is empty, a message has an empty role or an empty
\* content, or a role is none of system, user and assistant; and it has gone
\* on to encode the request if none of these holds
C26_ValidationRules ==
  Validated =>
    IF \/ ~params.isArray \/ Len(params.messages) = 0
       \/ Len(params.model) = 0
       \/ \E i \in 1..Len(params.messages) :
            \/ params.messages[i].role = ""
            \/ Len(params.messages[i].content) = 0
            \/ params.messages[i].role \notin {"system", "user", "assistant"}
    THEN /\ cpc = "settled" /\ encodeCalls = 0
         /\ outcome.kind = "error" /\ outcome.name = "BadRequestError"
    ELSE /\ encodeCalls = 1
         /\ outcome.name # "BadRequestError"

\* create() has rejected a request whose first message is well-formed and
\* whose second message has the role tool
C26_Witness ==
  /\ Validated
  /\ params.messages = <<Message("user", <<104, 105>>), Message("tool", <<104, 105>>)>>
  /\ params.model = ModelName
  /\ outcome = ErrorOutcome("BadRequestError", RoleNotAllowed)

----------------------------------------------------------------------------
(* Properties of cleanResponseText *)

\* C27: what cleanResponseText returned is left as it is by
\* cleanResponseText
C27_CleanIdempotent ==
  fn = "cleanResponseText" => cleanResponseText(ret) = ret

\* the text after the last <|END_USER|>, the whole text when it has none
AfterLastEndUser(text) ==
  IF \E i \in 1..Len(text) : OccursAt(END_USER, text, i)
  THEN LET last == SetMax({i \in 1..Len(text) : OccursAt(END_USER, text, i)})
       IN  Slice(text, last + Len(END_USER))
  ELSE text

\* a text that begins with a newline and a letter loses the two, another
\* text is kept
WithoutNewlineLetterPair(text) ==
  IF Len(text) >= 2 /\ text[1] = 10 /\ IsLetter(text[2])
  THEN Slice(text, 3) ELSE text

\* the text holds a complete sequence <|BEGIN_SYSTEM|> .. <|END_SYSTEM|> ..
\* <|BEGIN_USER|> .. <|END_USER|>
HasScaffolding(text) ==
  \E a \in 1..Len(text) :
    /\ OccursAt(BEGIN_SYSTEM, text, a)
    /\ \E b \in (a + Len(BEGIN_SYSTEM))..Len(text) :
         /\ OccursAt(END_SYSTEM, text, b)
         /\ \E c \in (b + Len(END_SYSTEM))..Len(text) :
              /\ OccursAt(BEGIN_USER, text, c)
              /\ \E d \in (c + Len(BEGIN_USER))..Len(text) :
                   OccursAt(END_USER, text, d)

\* C28: for a text without a complete scaffolding sequence cleanResponseText
\* returns what is left of the text after the last <|END_USER|>, without its
\* first two characters when they are a newline and a letter and whole
\* otherwise, once a trailing {} with the white space around it is stripped
\* and the rest is trimmed
C28_EndUserAndNewlineLetter ==
  (fn = "cleanResponseText" /\ ~HasScaffolding(arg)) =>
    ret = Trim(StripTrailingBraces(
            WithoutNewlineLetterPair(AfterLastEndUser(arg))))

\* <|END_USER|>, a newline, "A" and "Hi" gave "Hi"
C28_Witness ==
  /\ fn = "cleanResponseText"
  /\ arg = END_USER \o <<10, 65, 72, 105>>
  /\ ret = <<72, 105>>

----------------------------------------------------------------------------
(* Several CursorStream objects at once: createStream makes one for every
   request, each on the body of its own response.  A pull is taken in two
   steps, its start up to the race and the rest from the result of the race
   on; the pause after a small empty frame is part of the second step. *)

\* number of frames the transport of one request delivers
MaxPairFrames == 2

\* the frames the transports deliver, as positions in Frames: "Hi", the end
\* marker, a blank and an error envelope
PairFrameIds == {1, 2, 4, 5}

\* the requests that run side by side
StreamIds == {1, 2}

\* new CursorStream(response, responseId, model) and toStream() at the time
\* t: the fields, the reader of the body of the response, the stream with
\* the chunks enqueued so far, and the position of pull
NewInstance(t) ==
  [done |-> FALSE, lastActivity |-> t, chunkCount |-> 0, emptyChunkCount |-> 0,
   netState |-> "open", reads |-> 0,
   sstate |-> "readable", emitted |-> <<>>, error |-> <<>>,
   pc |-> "idle", timerStart |-> 0]

\* the object that is `this` in the callbacks of the stream of every request
\* when the fields are one module-level object
This_Global(i) == 1

\* the object that is `this` in the callbacks of the stream of request i: the
\* CursorStream made for that request
This(i) == i

\* if (!this.done) { this.enqueueFinalChunk(); this.done = true };
\* this.controller.close(); return
FinishInstance(inst) ==
  [inst EXCEPT !.emitted = IF inst.done THEN @ ELSE Append(@, FinalChunk),
               !.done = TRUE, !.sstate = "closed", !.pc = "idle"]

\* catch (error) { this.controller.error(error) }
ErrorInstance(inst, e) ==
  [inst EXCEPT !.sstate = "errored", !.error = e, !.pc = "idle"]

\* pull from the start to the race: a stream that is done is closed, else the
\* timer and the read are started at the time t
StartPull(inst, t) ==
  IF inst.done THEN [inst EXCEPT !.sstate = "closed"]
  ELSE [inst EXCEPT !.pc = "racing", !.timerStart = t]

\* pull after the race gave the frame at the time t: lastActivity,
\* processChunk, the end marker, the empty text, the content
AfterFrame(inst, frame, r, t) ==
  LET read == [inst EXCEPT !.lastActivity = t, !.reads = @ + 1]
  IN  IF ~r.ok THEN ErrorInstance(read, r.error)
      ELSE IF IsEndMarker(frame) THEN FinishInstance(read)
      ELSE IF Len(r.text) = 0
      THEN IF EndsByEmpties(read.chunkCount, read.emptyChunkCount + 1)
           THEN FinishInstance([read EXCEPT !.emptyChunkCount = @ + 1])
           ELSE [read EXCEPT !.emptyChunkCount = @ + 1, !.pc = "idle"]
      ELSE [read EXCEPT !.emptyChunkCount = 0,
                        !.emitted = Append(@, ContentChunk(r.text)),
                        !.chunkCount = @ + 1,
                        !.pc = "idle"]

\* the stream of request i calls pull
PullStartOf(i) ==
  /\ instances[This(i)].sstate = "readable"
  /\ instances[This(i)].pc = "idle"
  /\ instances' = [instances EXCEPT ![This(i)] = StartPull(@, clock)]
  /\ UNCHANGED clock

\* the read of request i gives a frame first
ReadFrameOf(i) ==
  /\ instances[This(i)].pc = "racing"
  /\ instances[This(i)].netState = "open"
  /\ instances[This(i)].reads < MaxPairFrames
  /\ \E f \in PairFrameIds :
       instances' = [instances EXCEPT
                       ![This(i)] = AfterFrame(@, Frames[f], Processed[f], clock)]
  /\ UNCHANGED clock

\* the read of request i reports the end of the body first
ReadDoneOf(i) ==
  /\ instances[This(i)].pc = "racing"
  /\ instances[This(i)].netState = "open"
  /\ instances' = [instances EXCEPT
                     ![This(i)] = FinishInstance([@ EXCEPT !.netState = "closed"])]
  /\ UNCHANGED clock

\* the read of request i rejects first
ReadErrorOf(i) ==
  /\ instances[This(i)].pc = "racing"
  /\ instances[This(i)].netState = "open"
  /\ instances' = [instances EXCEPT
                     ![This(i)] = ErrorInstance([@ EXCEPT !.netState = "errored"],
                                                TransportError)]
  /\ UNCHANGED clock

\* the timer of the pull of request i settles first, with
\* { done: true, value: undefined }
TimeoutOf(i) ==
  /\ instances[This(i)].pc = "racing"
  /\ clock - instances[This(i)].timerStart >= shortTimeout
  /\ instances' = [instances EXCEPT ![This(i)] = FinishInstance(@)]
  /\ UNCHANGED clock

\* time passes
PairTick ==
  /\ clock < MaxTicks * TickMs
  /\ clock' = clock + TickMs
  /\ UNCHANGED <<instances, stream, request, call, encode, transport, loop>>

\* a step of the stream of request i
StepOf(i) ==
  \/ PullStartOf(i)
  \/ ReadFrameOf(i)
  \/ ReadDoneOf(i)
  \/ ReadErrorOf(i)
  \/ TimeoutOf(i)

\* every request has its CursorStream and its stream, and no pull has run
PairInit ==
  /\ StreamInit /\ RequestStreamed /\ CallIdle /\ EncodeIdle /\ TransportIdle
  /\ LoopIdle
  /\ instances = [i \in StreamIds |-> NewInstance(0)]
  /\ clock = 0

\* what the steps of the requests leave alone
besidesPair == <<stream, request, call, encode, transport, loop>>

PairPullStart == \E i \in StreamIds : PullStartOf(i) /\ UNCHANGED besidesPair
PairReadFrame == \E i \in StreamIds : ReadFrameOf(i) /\ UNCHANGED besidesPair
PairReadDone == \E i \in StreamIds : ReadDoneOf(i) /\ UNCHANGED besidesPair
PairReadError == \E i \in StreamIds : ReadErrorOf(i) /\ UNCHANGED besidesPair
PairTimeout == \E i \in StreamIds : TimeoutOf(i) /\ UNCHANGED besidesPair

PairNext ==
  \/ PairPullStart
  \/ PairReadFrame
  \/ PairReadDone
  \/ PairReadError
  \/ PairTimeout
  \/ PairTick

PairSpec == PairInit /\ [][PairNext]_vars

----------------------------------------------------------------------------
(* Properties of concurrent requests *)

\* C29: a step of the stream of one request (the start of a pull, a frame,
\* the end of the body, a failed read, a timeout, with the termination they
\* bring) leaves the fields, the reader, the state of the stream and the
\* emitted chunks of every other request as they are
C29_StreamsIndependent ==
  [][\A i \in StreamIds :
       StepOf(i) => \A j \in StreamIds \ {i} : instances'[j] = instances[j]]_vars

\* both requests have emitted content: one has ended and is closed, the
\* other is still readable, with another count and another lastActivity
C29_Witness ==
  /\ instances[1].sstate = "closed" /\ instances[1].done
  /\ instances[1].chunkCount = 1
  /\ instances[2].sstate = "readable" /\ ~instances[2].done
  /\ instances[2].chunkCount = 2
  /\ instances[1].lastActivity # instances[2].lastActivity

----------------------------------------------------------------------------
(* Properties of the timeout of a pull *)

\* C30: when the timer of a pull wins the race after at least one frame was
\* received and at most idleTimeout has passed since the last frame, the
\* stream is not done afterwards and no chunk was enqueued
C30_TimeoutWithinIdleWindow ==
  [][(/\ RaceTimeout
      /\ recvLog # <<>>
      /\ now - lastActivity <= idleTimeout)
     => (~done' /\ emitted' = emitted)]_vars

----------------------------------------------------------------------------
(* Properties of the reads of timed-out pulls *)

\* C31: no frame is lost to the read of a timed-out pull: while the
\* transport is open or has ended, every frame it delivered was received by
\* pull, to be classified and emitted, or is still buffered for its next read
C31_AbandonedReadFrameKept ==
  netState \in {"open", "closed"} => Len(recvLog) + Len(netQueue) = sent

----------------------------------------------------------------------------
(* Properties of the empty frames before the first content chunk *)

----------------------------------------------------------------------------
(* Properties of processChunk on leaked prompts *)

\* C33: whatever the kind of the frame (headered gzip, headered text, bare
\* gzip, bare protocol, plain text), the text processChunk returns holds no
\* complete sequence <|BEGIN_SYSTEM|> .. <|END_SYSTEM|> .. <|BEGIN_USER|> ..
\* <|END_USER|>
C33_NoScaffoldingReturned ==
  (fn = "processChunk" /\ ret.ok) => ~HasScaffolding(ret.text)

----------------------------------------------------------------------------
(* Properties of the timer and the waits of APIClient.request *)

\* C34: the timer of an attempt is set to options.timeout, or to the timeout
\* of the client when the option is not given, and when it fires while the
\* call of fetch of its attempt is in flight, that call is aborted, whether
\* the caller gave a signal of its own or not
C34_TimeoutAbortsFetch ==
  [][\A i \in 1..Len(timers) :
       (TimerFiresOf(i) /\ rpc = "fetching" /\ i = attempt + 1) =>
         /\ timers[i].delay =
              (IF optTimeout = Undefined THEN DefaultTimeout ELSE optTimeout)
         /\ fetchAborted']_vars

\* C35: once request() has settled, no timer of any of its attempts is
\* pending: each was cleared or has fired
C35_NoTimerLeftPending ==
  rpc \in {"resolved", "rejected"} =>
    \A i \in 1..Len(timers) : timers[i].state # "pending"

\* C36: the waits of request() so far are 1 s, 2 s, 4 s, .. in this order,
\* one after every failed attempt but the last: while it waits there are as
\* many waits as calls of fetch that settled, and else (a call of fetch is in
\* flight, or request() has settled after its final attempt) one less than
\* calls of fetch that were made
C36_ExponentialBackoff ==
  /\ \A k \in 1..Len(sleeps) : sleeps[k] = (2 ^ (k - 1)) * 1000
  /\ Len(sleeps) = IF rpc = "sleeping" THEN Len(fetchLog) ELSE fetchCalls - 1
  /\ rpc \in {"resolved", "rejected"} => fetchCalls = Len(fetchLog)

\* request() of a client with maxRetries = 2 has rejected after three failed
\* attempts and two waits, of 1 s and of 2 s
C36_Witness ==
  /\ maxRetries = 2 /\ rpc = "rejected"
  /\ Len(fetchLog) = 3
  /\ sleeps = <<1000, 2000>>

----------------------------------------------------------------------------
(* Properties of the counters of the stream *)

RECURSIVE ContentDeltas(_)
\* the number of content delta chunks among the chunks
ContentDeltas(chs) ==
  IF chs = <<>> THEN 0
  ELSE (IF Head(chs).finish_reason = "none" THEN 1 ELSE 0)
       + ContentDeltas(Tail(chs))

\* chunkCount is the number of content delta chunks emitted so far, and each
\* of them carries a text that is not empty
CountsContent ==
  /\ chunkCount = ContentDeltas(emitted)
  /\ \A i \in 1..Len(emitted) :
       emitted[i].finish_reason = "none" =>
         (Len(emitted[i].delta) = 1 /\ Len(emitted[i].delta[1]) > 0)

\* the step emits a content delta chunk
EmitsContent ==
  /\ Len(emitted') = Len(emitted) + 1
  /\ emitted'[Len(emitted')].finish_reason = "none"

\* the step counts an empty frame: the counter is one more, and the frame
\* pull has processed has an empty cleaned text
CountsOneEmpty ==
  /\ emptyChunkCount' = emptyChunkCount + 1
  /\ pc = "awaitProcess" /\ EmptyFrame(value)

\* C37 as stated: at every point chunkCount is the number of content delta
\* chunks emitted and each of them carries a text that is not empty;
\* emptyChunkCount starts at 0 and every step either leaves it as it is,
\* counts one empty frame, or emits a content delta chunk and resets it to 0.
C37_Original ==
  /\ []CountsContent
  /\ emptyChunkCount = 0
  /\ [][/\ EmitsContent => emptyChunkCount' = 0
        /\ \/ emptyChunkCount' = emptyChunkCount
           \/ CountsOneEmpty
           \/ EmitsContent]_vars

\* C37 amended: the same as long as the consumer has not cancelled the stream.
C37_CountersWhileNotCancelled ==
  /\ []CountsContent
  /\ emptyChunkCount = 0
  /\ [][~cancelled =>
          /\ EmitsContent => emptyChunkCount' = 0
          /\ \/ emptyChunkCount' = emptyChunkCount
             \/ CountsOneEmpty
             \/ EmitsContent]_vars

\* an empty frame was counted, then a content delta was emitted and reset
\* the counter, then another empty frame was counted
C37_Witness ==
  /\ ~cancelled
  /\ Len(recvLog) = 3
  /\ chunkCount = 1 /\ Len(emitted) = 1
  /\ emitSrc[1] = 2
  /\ emptyChunkCount = 1

----------------------------------------------------------------------------
(* The loop of parseHexResponse, one iteration at a time *)

\* number of pieces an argument of parseHexResponse is made of
MaxHexPieces == 3

\* the pieces of the arguments: the prefix of a message of length zero, the
\* message whose field 1 is "A", the prefix ffffffffff, the prefixes
\* -000000005 and -000000001, the letters zz, and one digit
HexPieces ==
  {<<0, 0, 0, 0, 0, 0, 0, 0, 0, 0>>,
   ToHex(BlockA.bytes),
   <<15, 15, 15, 15, 15, 15, 15, 15, 15, 15>>,
   <<16, 0, 0, 0, 0, 0, 0, 0, 0, 5>>,
   <<16, 0, 0, 0, 0, 0, 0, 0, 0, 1>>,
   <<17, 17>>,
   <<0>>}

\* the arguments of parseHexResponse: up to MaxHexPieces pieces in a row
HexStrings ==
  {Join(ps) : ps \in UNION {[1..n -> HexPieces] : n \in 0..MaxHexPieces}}

\* while (offset < hex.length) with the test true: one iteration
Iterate ==
  /\ loopPc = "loop"
  /\ hexOffset < Len(hexString)
  /\ LET i == Iteration(hexString, hexOffset, hexResults)
     IN  /\ loopPc' = IF i.exit THEN "returned" ELSE "loop"
         /\ hexOffset' = i.offset
         /\ hexResults' = i.results
  /\ UNCHANGED <<hexString, stream, request, call, encode, transport, pair>>

\* while (offset < hex.length) with the test false at the first test:
\* return results
LoopEnds ==
  /\ loopPc = "loop"
  /\ ~(hexOffset < Len(hexString))
  /\ loopPc' = "returned"
  /\ UNCHANGED <<hexString, hexOffset, hexResults, stream, request, call, encode,
                 transport, pair>>

\* parseHexResponse was called with a string and is at the test of its loop
ParseInit ==
  /\ StreamInit /\ RequestStreamed /\ CallIdle /\ EncodeIdle /\ TransportIdle
  /\ PairIdle
  /\ loopPc = "loop" /\ hexString \in HexStrings
  /\ hexOffset = 0 /\ hexResults = <<>>

ParseNext ==
  \/ Iterate
  \/ LoopEnds

ParseSpec == ParseInit /\ [][ParseNext]_vars

\* C38: whenever the loop of parseHexResponse is about to run an iteration,
\* that iteration leaves the loop or ends with an offset that is greater
\* than the one it begins with, whatever the string: with characters that
\* are no hexadecimal digits, with messages of length zero, with corrupted
\* length fields
C38_IterationAdvancesOrExits ==
  (loopPc = "loop" /\ hexOffset < Len(hexString)) =>
    LET i == Iteration(hexString, hexOffset, hexResults)
    IN  i.exit \/ i.offset > hexOffset

====
